---- MODULE Spec2Model ----
(***************************************************************************)
(* Model of teracontrol's sweep execution engine: the ExperimentWorker of  *)
(* core/experiment/qt_experiment.py running on its execution thread, the   *)
(* controlling thread that raises the abort / pause flags, and the         *)
(* controller-side handlers that feed the run's HDF5 writer (Spec).        *)
(* The instrument side has its own specifications: the ConnectionEngine    *)
(* over the HAL objects (SpecEngine), the InstrumentController's           *)
(* connecting guard under two calling threads (SpecGuard), the             *)
(* InstrumentRegistry (SpecRegistry) and one TeraflashTHzSystem            *)
(* acquire_trace call against its TCP peer (SpecTrace).  SweepConfig's     *)
(* construction and point generation are checked over a grid of sweep      *)
(* configurations (SpecSweep), and the command layer of the two HAL        *)
(* classes with the calls built on it (set, typed Mercury accessors,       *)
(* acquire_trace, status, estimate_timeout_s) against the replies the      *)
(* instrument end may give (SpecHal).  The AppController's experiment      *)
(* status, its run/pause/resume/abort calls and its queued slots are       *)
(* checked against workers reduced to the signals they emit                *)
(* (SpecController).  The Mercury client's pairing of commands and reply   *)
(* lines over its receive buffer has a specification of its own            *)
(* (SpecMercury).  SpecLive is the worker of Spec with the fairness of its  *)
(* thread and of the controller's event loop, for what a run eventually    *)
(* reaches.  SpecSettle is one positioning of the field axis: the settle   *)
(* time estimate and the settle loop that waits against it.                *)
(*                                                                         *)
(* Time is counted in sleep quanta (_SLEEP_QUANTUM_MS): dwell and the two  *)
(* timeouts are whole numbers of quanta, and the elapsed time of a wait    *)
(* loop is the number of quanta it has slept.                              *)
(***************************************************************************)
EXTENDS Integers, Sequences, FiniteSets, TLC

\* ------------------------------------------------------------------ bounds
MaxStop == 2
MaxDwellQ == 2
SettleTimeoutQ == 0
AvgTimeoutQ == 0
MaxSleepsCounted == 3
MaxInstances == 3
MaxTraceLength == 2
MaxGrid == 10
MaxStepG == 5
EpsDiv == 2
MaxTac == 7
MaxRuns == 2
MaxCommands == 4
MaxConns == 2
QuantumDs == 1000
TIMEOUT_S == 5000
POST_RAMP_STABILIZATION_S == 150
BASE_OVERHEAD_S == 10
MinimumEstimate == 20
ThzTimeoutS == 15

VARIABLES
    sweep,       \* SweepConfig of the run: start, stop, step, dwell (quanta), axis.blocking
    pc,          \* position of the execution thread inside ExperimentWorker.run()
    i,           \* enumerate(sweep.points(), start=1) index of the current point
    _abort,      \* ExperimentWorker._abort
    _paused,     \* ExperimentWorker._paused
    runner,      \* SweepRunner state: _abort, safe_dump_dir configured or None
    remaining,   \* _controlled_sleep: remaining quanta
    elapsed,     \* quanta slept in the current wait loop
    log,         \* the notifications emitted and the axis / capture calls made, in order
    queue,       \* notifications queued to the controlling thread, not yet handled
    writer,      \* HDF5RunWriter: open, recorded status, indices written, times the
                 \* file was closed; attached: AppController._writer is not None
    hist         \* history: where abort was first raised, quanta slept in that wait
                 \* since, the exception raised

vars == <<sweep, pc, i, _abort, _paused, runner, remaining, elapsed, log, queue, writer, hist>>

\* The instrument side of the application, which the sweep engine does not touch.
VARIABLES
    hal,         \* per instrument name: the sockets its HAL object holds
    connected,   \* ConnectionEngine.connected
    last_error,  \* ConnectionEngine.last_error ("None" or the exception)
    attempts,    \* history: per name, the outcome of the latest HAL connect attempt
                 \* and of the one before it
    call,        \* history: the latest ConnectionEngine call and what it did
    _connecting, \* InstrumentController._connecting
    thread,      \* per calling thread: its position inside InstrumentController.connect,
                 \* the name it was called with and what the call came to
    _instruments, \* InstrumentRegistry._instruments, in insertion order: name, the
                 \* HAL object (id, class, sockets held)
    created,     \* number of HAL objects constructed so far
    first,       \* history: per name, the id of the first object registered under it
    rcall,       \* history: the latest InstrumentRegistry call and what it did
    peer,        \* the instrument's TCP end during one acquire_trace: what it will send
    acq          \* TeraflashTHzSystem.acquire_trace: position, bytes received, the
                 \* per-acquisition socket, the exception raised, the result

evars == <<hal, connected, last_error, attempts, call>>

gvars == <<_connecting, thread>>

rvars == <<_instruments, created, first, rcall>>

tvars == <<peer, acq>>

VARIABLES
    cfg,         \* the arguments of one SweepConfig(...) construction: start, stop, step
    built,       \* what the construction did: "" (not yet), "ok", or the ValueError raised
    pts,         \* the list of points() of the constructed SweepConfig (<<>>: not called)
    npts         \* the value npoints() returned (-1: not called)

svars == <<cfg, built, pts, npts>>

VARIABLES
    hcall,       \* history: the latest call on a HAL object and what it did
    hlast        \* history: per name, whether the latest call on that HAL object
                 \* ended in a protocol error

hvars == <<hcall, hlast>>

VARIABLES
    experiment_status,  \* AppContext.experiment_status
    _worker,     \* AppController._worker: the run whose worker it refers to, 0 for None
    _writer,     \* AppController._writer: the run whose writer it refers to, 0 for None
    workers,     \* per run started, the ExperimentWorker: where it is, its _abort flag
    writers,     \* per run started, its HDF5RunWriter: "open" or the status it closed with
    events,      \* the slot invocations queued on the controlling thread, in emission order
    kcall        \* history: the latest experiment call on the AppController and its outcome

kvars == <<experiment_status, _worker, _writer, workers, writers, events, kcall>>

\* The components outside the engine, the guard, the registry and the trace.
VARIABLES
    sock,        \* GenericMercuryController.sock: 0 for None, else which connection it is
    _rx_buffer,  \* GenericMercuryController._rx_buffer: the reply lines received and not yet returned
    wire,        \* the reply lines the instrument has sent on the connection, not yet received
    issued,      \* how many commands were sent so far
    conns,       \* how many TCP connections were opened so far
    mcall        \* history: the latest call on the Mercury client and what it returned

mvars == <<sock, _rx_buffer, wire, issued, conns, mcall>>

VARIABLES
    axis,        \* one FieldAxis positioning: the target value, the field read back and
                 \* the ramp rate read back (mT, mT/min)
    timeout_s,   \* _position_axis: timeout_s = axis.estimate_settle_time_s(value), in
                 \* tenths of a second (-1: not yet estimated)
    is_ready     \* what the latest axis.is_ready() returned

fvars == <<axis, timeout_s, is_ready>>

ovars == <<svars, hvars, kvars, mvars, fvars>>

ivars == <<evars, gvars, rvars, tvars, ovars>>

allvars == <<vars, ivars>>

\* ------------------------------------------------------------ instruments

\* InstrumentCatalog names handed to the ConnectionEngine, with the HAL class
\* behind each (MercuryITCController is a GenericMercuryController).
Names == {"thz", "temp"}

Kind(n) == IF n = "thz" THEN "TeraflashTHzSystem" ELSE "GenericMercuryController"

\* The socket attributes of a HAL object, in the order disconnect() closes them.
Sockets(kind) ==
    IF kind = "TeraflashTHzSystem" THEN <<"_udp_tx", "_udp_rx">> ELSE <<"sock">>

\* The threads that may call into the InstrumentController.
Threads == {"t1", "t2"}

NoCall ==
    [op |-> "", name |-> "", was |-> FALSE, hal_called |-> FALSE, raised |-> FALSE,
     again |-> FALSE, exc |-> ""]

NoRegistryCall == [op |-> "", name |-> "", id |-> 0, raised |-> "", attempted |-> {}]

\* No acquisition under way: no per-acquisition socket exists.
NoPeer ==
    [accepts |-> TRUE, numeric |-> TRUE, declared |-> 1, header |-> 0, payload |-> 0,
     then |-> "close"]

NoAcquisition ==
    [pc |-> "idle", hdr |-> 0, data |-> 0, sock |-> "none", exc |-> "", result |-> "",
     payload_read |-> FALSE]

\* No SweepConfig under construction.
NoSweepConfig == cfg = [start |-> 0, stop |-> 0, step |-> 1] /\ built = "" /\ pts = <<>> /\ npts = -1

NoRet ==
    [running |-> "", average_points |-> "", tac_time_s |-> "", amplitude_nA |-> "",
     value |-> ""]

\* No averaging command sequence sent: the commands that went onto the wire,
\* what the instrument did with each, its AUTO and WAIT flags before and after.
NoAveraging ==
    [cmds |-> <<>>, ws |-> <<>>, before |-> [AUTO |-> "OFF", WAIT |-> "OFF"],
     flags |-> [AUTO |-> "OFF", WAIT |-> "OFF"]]

\* No Mercury status snapshot taken.
NoSnapshot == [cls |-> "", devices |-> {}, keys |-> {}, entries |-> {}, reads |-> <<>>]

NoHalCall ==
    [op |-> "", arg |-> "", name |-> "", socks |-> {}, sent |-> 0, exc |-> "",
     cause |-> "", after |-> FALSE, failed |-> {}, ret |-> NoRet, num |-> 0,
     avg |-> NoAveraging, snap |-> NoSnapshot]

\* A reply line is named by the command it answers and the connection that
\* command went out on; NoTag stands for no line.
NoTag == [cmd |-> 0, conn |-> 0]

NoMercuryCall == [op |-> "", cmd |-> 0, conn |-> 0, exc |-> "", returned |-> NoTag]

\* GenericMercuryController.__init__: sock None, _rx_buffer empty.
MercuryFresh ==
    /\ sock = 0
    /\ _rx_buffer = <<>>
    /\ wire = <<>>
    /\ issued = 0
    /\ conns = 0
    /\ mcall = NoMercuryCall

\* No call made on any HAL object yet.
NoCommand == hcall = NoHalCall /\ hlast = [n \in Names |-> FALSE] /\ MercuryFresh

NoControllerCall == [op |-> "", was |-> "IDLE", result |-> ""]

\* AppController.__init__: status IDLE, _reset_experiment_state(), no run yet.
ControllerIdle ==
    /\ experiment_status = "IDLE"
    /\ _worker = 0
    /\ _writer = 0
    /\ workers = <<>>
    /\ writers = <<>>
    /\ events = <<>>
    /\ kcall = NoControllerCall

\* No axis being positioned.
NoAxis ==
    /\ axis = [value |-> 0, current |-> 0, rate |-> 1]
    /\ timeout_s = -1
    /\ is_ready = FALSE

OthersAtRest == NoSweepConfig /\ NoCommand /\ ControllerIdle /\ NoAxis

\* ConnectionEngine.__init__ over freshly constructed HAL objects: no socket,
\* every flag False, every last error None; nothing connecting; an empty
\* registry.
EnginesIdle ==
    /\ last_error = [n \in Names |-> "None"]
    /\ attempts = [n \in Names |-> [last |-> "none", prev |-> "none"]]
    /\ call = NoCall
    /\ _connecting = {}
    /\ thread = [t \in Threads |-> [pc |-> "idle", name |-> "", result |-> ""]]
    /\ _instruments = <<>>
    /\ created = 0
    /\ first = [n \in Names |-> 0]
    /\ rcall = NoRegistryCall

InstrumentsAtRest ==
    /\ hal = [n \in Names |-> {}]
    /\ connected = [n \in Names |-> FALSE]
    /\ EnginesIdle

InitInstruments ==
    /\ InstrumentsAtRest
    /\ OthersAtRest
    /\ peer = NoPeer
    /\ acq = NoAcquisition

\* ------------------------------------------------------------ sweep config

\* SweepConfig.__post_init__: step non-zero and pointing from start to stop.
SweepValid(s) == s.step # 0 /\ (s.stop - s.start) * s.step >= 0

\* SweepConfig.__post_init__ as the constructor's outcome: the first check that
\* fails names the ValueError raised.
__post_init__(s) ==
    IF s.step = 0 THEN "ValueError:zero"
    ELSE IF (s.stop - s.start) * s.step < 0 THEN "ValueError:sign"
    ELSE "ok"

Abs(v) == IF v < 0 THEN -v ELSE v

\* The loop conditions of points().  Sweep values are whole numbers of a grid
\* unit (the comparisons and the additions of SweepConfig are homogeneous in
\* start, stop and step, so the unit is immaterial: 0.1 for the sweep 0, 1, 0.3,
\* 0.5 for the sweep 1, 1, -0.5).  eps = abs(step) * 1e-12 is abs(step) / EpsDiv,
\* the factor scaled to what the grid resolves; both sides of the comparison
\* are multiplied by EpsDiv to stay in whole numbers.
WithinStop_noeps(s, x) == IF s.step > 0 THEN x <= s.stop ELSE x >= s.stop

WithinStop_fullstep(s, x) ==
    IF s.step > 0 THEN x <= s.stop + Abs(s.step) ELSE x >= s.stop - Abs(s.step)

WithinStop(s, x) ==
    IF s.step > 0
    THEN x * EpsDiv <= s.stop * EpsDiv + Abs(s.step)
    ELSE x * EpsDiv >= s.stop * EpsDiv - Abs(s.step)

RECURSIVE PointsFrom(_, _)
\* SweepConfig.points(): x = start; while x <= stop + eps: yield x; x += step
\* (x >= stop - eps for a negative step).
PointsFrom(s, x) ==
    IF WithinStop(s, x) THEN <<x>> \o PointsFrom(s, x + s.step) ELSE <<>>

points(s) == PointsFrom(s, s.start)

npoints(s) == Len(points(s))

Sweeps ==
    { s \in [start : {1}, stop : 1..MaxStop, step : {1},
             dwell_q : 0..MaxDwellQ, blocking : BOOLEAN] : SweepValid(s) }

\* ------------------------------------------------------------ notifications

Ev(name, idx, m) == [ev |-> name, i |-> idx, msg |-> m]

\* A signal with a handler connected in AppController._start_worker_thread that
\* touches the writer: data_ready, aborted, finished.
Queued(e) == e.ev \in {"data_ready", "aborted", "finished"}

RECURSIVE SelectQueued(_)
SelectQueued(es) ==
    IF es = <<>> THEN <<>>
    ELSE IF Queued(Head(es)) THEN <<Head(es)>> \o SelectQueued(Tail(es))
         ELSE SelectQueued(Tail(es))

\* The step_progress a wait loop repeats every quantum (same step, same message,
\* only the elapsed time differs) is kept in the log once per run of repeats.
Repeats(es) ==
    /\ Len(es) = 1
    /\ es[1].ev = "step_progress"
    /\ es[1].msg # ""
    /\ log # <<>>
    /\ log[Len(log)] = es[1]

\* signals.<x>.emit(...) / a call on the axis or the capture engine
Emit(es) ==
    /\ log' = IF Repeats(es) THEN log ELSE log \o es
    /\ queue' = queue \o SelectQueued(es)

\* ------------------------------------------------------------------- Init

Init ==
    /\ sweep \in Sweeps
    /\ pc = "run"
    /\ i = 0
    /\ _abort = FALSE
    /\ _paused = FALSE
    /\ runner \in [_abort : {FALSE}, safe_dump_dir : BOOLEAN]
    /\ remaining = 0
    /\ elapsed = 0
    /\ log = <<>>
    /\ queue = <<>>
    /\ writer = [open |-> TRUE, status |-> "running", data |-> <<>>, closes |-> 0,
                 error |-> FALSE, attached |-> TRUE]
    /\ hist = [abort_in |-> "", abort_i |-> 0, sleeps |-> 0, raised |-> "", raised_i |-> 0]
    /\ InitInstruments

\* ------------------------------------------------------------- history

Min(a, b) == IF a < b THEN a ELSE b

\* QtCore.QThread.msleep(quantum) returned: one more quantum slept.
\* Counted for an abort raised inside the dwell wait or the pause loop.
Slept(h) ==
    IF h.abort_in \in {"dwell", "pause"}
    THEN [h EXCEPT !.sleeps = Min(@ + 1, MaxSleepsCounted)]
    ELSE h

\* Where the execution thread is when abort() is first called: at the per-point
\* check, inside the dwell wait with time left, inside the pause loop with the
\* pause flag set, or elsewhere.
AbortIn ==
    IF pc = "_check_abort" THEN "check"
    ELSE IF pc = "dwell_msleep" \/ (pc = "_controlled_sleep" /\ remaining > 0) THEN "dwell"
    ELSE IF pc \in {"pause_msleep", "_wait_if_paused"} /\ _paused THEN "pause"
    ELSE "run"

Raised(h, what) == [h EXCEPT !.raised = what, !.raised_i = i]

\* ----------------------------------------------------- controlling thread

\* ExperimentWorker.abort(): self._abort = True
abort ==
    /\ pc # "done"
    /\ _abort' = TRUE
    /\ hist' = IF ~_abort
               THEN [hist EXCEPT !.abort_in = AbortIn, !.abort_i = i]
               ELSE hist
    /\ UNCHANGED <<ivars, sweep, pc, i, _paused, runner, remaining, elapsed, log, queue, writer>>

\* ExperimentWorker.pause(): self._paused = True
pause ==
    /\ pc # "done"
    /\ _paused' = TRUE
    /\ UNCHANGED <<ivars, sweep, pc, i, _abort, runner, remaining, elapsed, log, queue, writer, hist>>

\* ExperimentWorker.resume(): self._paused = False
resume ==
    /\ pc # "done"
    /\ _paused' = FALSE
    /\ hist' = IF hist.abort_in = "pause" THEN [hist EXCEPT !.abort_in = "resumed"] ELSE hist
    /\ UNCHANGED <<ivars, sweep, pc, i, _abort, runner, remaining, elapsed, log, queue, writer>>

\* -------------------------------------------------------- execution thread

\* SweepRunner.abort(): self._abort = True
RunnerAbort == [runner EXCEPT !._abort = TRUE]

\* Variant: the abort exit also puts the axis into its safe state itself.
AbortExit_shutdown(before) ==
    /\ runner' = RunnerAbort
    /\ Emit(before \o <<Ev("runner.abort", i, ""), Ev("shutdown", i, ""),
                        Ev("aborted", i, "")>>)
    /\ pc' = "finally"

\* The four places of run() that stop the run on abort: runner.abort(),
\* signals.aborted.emit(), return (into the finally block).  `before` are the
\* calls made on the way out (end_averaging in _run_averaging).
AbortExit(before) ==
    /\ runner' = RunnerAbort
    /\ Emit(before \o <<Ev("runner.abort", i, ""), Ev("aborted", i, "")>>)
    /\ pc' = "finally"

\* Variant: the exception is swallowed and the loop goes on with the next point.
RaiseExit_continue(what) ==
    /\ hist' = Raised(hist, what)
    /\ pc' = "for"

\* An exception leaving the try block: nothing catches it, the finally block runs.
RaiseExit(what) ==
    /\ hist' = Raised(hist, what)
    /\ pc' = "finally"

\* run(): started.emit(sweep.describe()); run_progress.emit(0, npoints)
run_begin ==
    /\ pc = "run"
    /\ Emit(<<Ev("started", 0, ""), Ev("run_progress", 0, "")>>)
    /\ pc' = "for"
    /\ UNCHANGED <<ivars, sweep, i, _abort, _paused, runner, remaining, elapsed, writer, hist>>

\* for i, value in enumerate(sweep.points(), start=1): next point, or loop end
run_for ==
    /\ pc = "for"
    /\ \/ /\ i < npoints(sweep)
          /\ i' = i + 1
          /\ pc' = "_check_abort"
       \/ /\ i >= npoints(sweep)
          /\ pc' = "finally"
          /\ UNCHANGED i
    /\ UNCHANGED <<ivars, sweep, _abort, _paused, runner, remaining, elapsed, log, queue, writer, hist>>

\* Variant: the per-point check does not look at the flag.
_check_abort_blind ==
    /\ pc = "_check_abort"
    /\ pc' = "_wait_if_paused"
    /\ UNCHANGED <<ivars, sweep, i, _abort, _paused, runner, remaining, elapsed, log, queue,
                   writer, hist>>

\* if self._check_abort(): return
_check_abort ==
    /\ pc = "_check_abort"
    /\ \/ /\ _abort
          /\ AbortExit(<<>>)
       \/ /\ ~_abort
          /\ pc' = "_wait_if_paused"
          /\ UNCHANGED <<runner, log, queue>>
    /\ UNCHANGED <<ivars, sweep, i, _abort, _paused, remaining, elapsed, writer, hist>>

\* Variant: the pause loop only sleeps, abort is not looked at until resume.
_wait_if_paused_noabort ==
    /\ pc = "_wait_if_paused"
    /\ pc' = IF _paused THEN "pause_msleep" ELSE "goto"
    /\ UNCHANGED <<ivars, sweep, i, _abort, _paused, runner, remaining, elapsed, log, queue,
                   writer, hist>>

\* Variant: the per-point pause check lets the point start whatever the flag.
_wait_if_paused_nowait ==
    /\ pc = "_wait_if_paused"
    /\ pc' = "goto"
    /\ UNCHANGED <<ivars, sweep, i, _abort, _paused, runner, remaining, elapsed, log, queue,
                   writer, hist>>

\* if not self._wait_if_paused(): return
_wait_if_paused ==
    /\ pc = "_wait_if_paused"
    /\ \/ /\ ~_paused
          /\ pc' = "goto"
          /\ UNCHANGED <<runner, log, queue>>
       \/ /\ _paused
          /\ _abort
          /\ AbortExit(<<>>)
       \/ /\ _paused
          /\ ~_abort
          /\ pc' = "pause_msleep"
          /\ UNCHANGED <<runner, log, queue>>
    /\ UNCHANGED <<ivars, sweep, i, _abort, _paused, remaining, elapsed, writer, hist>>

\* _wait_if_paused: QtCore.QThread.msleep(self._SLEEP_QUANTUM_MS)
pause_msleep ==
    /\ pc = "pause_msleep"
    /\ pc' = "_wait_if_paused"
    /\ hist' = Slept(hist)
    /\ UNCHANGED <<ivars, sweep, i, _abort, _paused, runner, remaining, elapsed, log, queue, writer>>

\* _position_axis: axis.goto(value); t0 = time.monotonic() for a blocking axis
goto ==
    /\ pc = "goto"
    /\ \/ /\ Emit(<<Ev("goto", i, "")>>)
          /\ pc' = IF sweep.blocking THEN "settle" ELSE "dwell"
          /\ elapsed' = 0
          /\ UNCHANGED hist
       \/ /\ RaiseExit("goto")
          /\ UNCHANGED <<elapsed, log, queue>>
    /\ UNCHANGED <<ivars, sweep, i, _abort, _paused, runner, remaining, writer>>

\* _position_axis: while not axis.is_ready(): abort / timeout / progress
settle ==
    /\ pc = "settle"
    /\ \/ /\ pc' = "dwell"
          /\ UNCHANGED <<runner, log, queue, hist>>
       \/ /\ _abort
          /\ AbortExit(<<>>)
          /\ UNCHANGED hist
       \/ /\ ~_abort
          /\ elapsed > SettleTimeoutQ
          /\ RaiseExit("TimeoutError:settle")
          /\ UNCHANGED <<runner, log, queue>>
       \/ /\ ~_abort
          /\ elapsed <= SettleTimeoutQ
          /\ Emit(<<Ev("step_progress", i, "stabilizing...")>>)
          /\ pc' = "settle_msleep"
          /\ UNCHANGED <<runner, hist>>
    /\ UNCHANGED <<ivars, sweep, i, _abort, _paused, remaining, elapsed, writer>>

\* Variant: the settle loop measures no time passing.
settle_msleep_frozen ==
    /\ pc = "settle_msleep"
    /\ pc' = "settle"
    /\ hist' = Slept(hist)
    /\ UNCHANGED <<ivars, sweep, i, _abort, _paused, runner, remaining, elapsed, log, queue,
                   writer>>

\* _position_axis: QtCore.QThread.msleep(self._SLEEP_QUANTUM_MS)
settle_msleep ==
    /\ pc = "settle_msleep"
    /\ pc' = "settle"
    /\ elapsed' = elapsed + 1
    /\ hist' = Slept(hist)
    /\ UNCHANGED <<ivars, sweep, i, _abort, _paused, runner, remaining, log, queue, writer>>

\* The end of _position_axis and what run() does next:
\* step_progress.emit(1, 1, ""); meta = axis.describe(value); step_started.emit(meta)
Positioned == <<Ev("step_progress", i, ""), Ev("step_started", i, "")>>

\* _position_axis: if dwell_s > 0: self._controlled_sleep(int(dwell_s * 1000))
dwell ==
    /\ pc = "dwell"
    /\ \/ /\ sweep.dwell_q > 0
          /\ remaining' = sweep.dwell_q
          /\ elapsed' = 0
          /\ pc' = "_controlled_sleep"
          /\ UNCHANGED <<log, queue>>
       \/ /\ sweep.dwell_q = 0
          /\ Emit(Positioned)
          /\ pc' = "begin_averaging"
          /\ UNCHANGED <<remaining, elapsed>>
    /\ UNCHANGED <<ivars, sweep, i, _abort, _paused, runner, writer, hist>>

\* _controlled_sleep: while remaining > 0: if self._abort: return False
_controlled_sleep ==
    /\ pc = "_controlled_sleep"
    /\ \/ /\ remaining > 0
          /\ _abort
          /\ AbortExit(<<>>)
       \/ /\ remaining > 0
          /\ ~_abort
          /\ pc' = "dwell_msleep"
          /\ UNCHANGED <<runner, log, queue>>
       \/ /\ remaining <= 0
          /\ Emit(Positioned)
          /\ pc' = "begin_averaging"
          /\ UNCHANGED runner
    /\ UNCHANGED <<ivars, sweep, i, _abort, _paused, remaining, elapsed, writer, hist>>

\* _controlled_sleep: step = min(quantum, remaining); msleep(step);
\* remaining -= step; elapsed += step; step_progress.emit(elapsed, total, "waiting...")
dwell_msleep ==
    /\ pc = "dwell_msleep"
    /\ remaining' = remaining - Min(1, remaining)
    /\ elapsed' = elapsed + Min(1, remaining)
    /\ Emit(<<Ev("step_progress", i, "waiting...")>>)
    /\ hist' = Slept(hist)
    /\ pc' = "_controlled_sleep"
    /\ UNCHANGED <<ivars, sweep, i, _abort, _paused, runner, writer>>

\* Variant: the capture follows begin_averaging without the poll.
begin_averaging_nowait ==
    /\ pc = "begin_averaging"
    /\ Emit(<<Ev("begin_averaging", i, "")>>)
    /\ elapsed' = 0
    /\ pc' = "capture"
    /\ UNCHANGED <<ivars, sweep, i, _abort, _paused, runner, remaining, writer, hist>>

\* _run_averaging: capture.begin_averaging(); timeout_s = capture.estimate_timeout_s();
\* _wait_for_averaging: t0 = time.monotonic()
begin_averaging ==
    /\ pc = "begin_averaging"
    /\ \/ /\ Emit(<<Ev("begin_averaging", i, "")>>)
          /\ elapsed' = 0
          /\ pc' = "_wait_for_averaging"
          /\ UNCHANGED hist
       \/ /\ RaiseExit("begin_averaging")
          /\ UNCHANGED <<elapsed, log, queue>>
    /\ UNCHANGED <<ivars, sweep, i, _abort, _paused, runner, remaining, writer>>

\* _wait_for_averaging: while not capture.is_averaging_done(): abort / timeout / progress;
\* the poll itself may raise
_wait_for_averaging ==
    /\ pc = "_wait_for_averaging"
    /\ \/ /\ Emit(<<Ev("step_progress", i, "")>>)
          /\ pc' = "capture"
          /\ UNCHANGED <<runner, hist>>
       \/ /\ RaiseExit("is_averaging_done")
          /\ UNCHANGED <<runner, log, queue>>
       \/ /\ _abort
          /\ AbortExit(<<Ev("end_averaging", i, "")>>)
          /\ UNCHANGED hist
       \/ /\ ~_abort
          /\ elapsed > AvgTimeoutQ
          /\ RaiseExit("TimeoutError:averaging")
          /\ UNCHANGED <<runner, log, queue>>
       \/ /\ ~_abort
          /\ elapsed <= AvgTimeoutQ
          /\ Emit(<<Ev("step_progress", i, "averaging...")>>)
          /\ pc' = "averaging_msleep"
          /\ UNCHANGED <<runner, hist>>
    /\ UNCHANGED <<ivars, sweep, i, _abort, _paused, remaining, elapsed, writer>>

\* _wait_for_averaging: QtCore.QThread.msleep(self._SLEEP_QUANTUM_MS)
averaging_msleep ==
    /\ pc = "averaging_msleep"
    /\ pc' = "_wait_for_averaging"
    /\ elapsed' = elapsed + 1
    /\ hist' = Slept(hist)
    /\ UNCHANGED <<ivars, sweep, i, _abort, _paused, runner, remaining, log, queue, writer>>

\* Variant: the loop index is taken from enumerate() without start=1.
_capture_data_from0 ==
    /\ pc = "capture"
    /\ Emit(<<Ev("capture", i - 1, ""), Ev("data_ready", i - 1, "")>>)
    /\ pc' = "_safe_dump"
    /\ UNCHANGED <<ivars, sweep, i, _abort, _paused, runner, remaining, elapsed, writer, hist>>

\* Variant: capture(meta) is called without index, which then defaults to 0.
_capture_data_noindex ==
    /\ pc = "capture"
    /\ Emit(<<Ev("capture", 0, ""), Ev("data_ready", 0, "")>>)
    /\ pc' = "_safe_dump"
    /\ UNCHANGED <<ivars, sweep, i, _abort, _paused, runner, remaining, elapsed, writer, hist>>

\* _capture_data: atom = capture.capture(meta, index=index); data_ready.emit(atom, meta)
_capture_data ==
    /\ pc = "capture"
    /\ \/ /\ Emit(<<Ev("capture", i, ""), Ev("data_ready", i, "")>>)
          /\ pc' = "_safe_dump"
          /\ UNCHANGED hist
       \/ /\ RaiseExit("capture")
          /\ UNCHANGED <<log, queue>>
    /\ UNCHANGED <<ivars, sweep, i, _abort, _paused, runner, remaining, elapsed, writer>>

\* _safe_dump: nothing when safe_dump_dir is None, else capture.dump_save(path)
\* and the companion metadata file
_safe_dump ==
    /\ pc = "_safe_dump"
    /\ \/ /\ ~runner.safe_dump_dir
          /\ pc' = "end_averaging"
          /\ UNCHANGED <<log, queue, hist>>
       \/ /\ runner.safe_dump_dir
          /\ Emit(<<Ev("dump_save", i, "")>>)
          /\ pc' = "end_averaging"
          /\ UNCHANGED hist
       \/ /\ runner.safe_dump_dir
          /\ RaiseExit("dump_save")
          /\ UNCHANGED <<log, queue>>
    /\ UNCHANGED <<ivars, sweep, i, _abort, _paused, runner, remaining, elapsed, writer>>

\* run(): capture.end_averaging(); run_progress.emit(i, npoints);
\* step_finished.emit(i, npoints)
end_averaging ==
    /\ pc = "end_averaging"
    /\ Emit(<<Ev("end_averaging", i, ""), Ev("run_progress", i, ""),
              Ev("step_finished", i, "")>>)
    /\ pc' = "for"
    /\ UNCHANGED <<ivars, sweep, i, _abort, _paused, runner, remaining, elapsed, writer, hist>>

\* finally: finished.emit(); step_progress.emit(0, 1, ""); axis.shutdown()
run_finally ==
    /\ pc = "finally"
    /\ Emit(<<Ev("finished", 0, ""), Ev("step_progress", 0, ""), Ev("shutdown", 0, "")>>)
    /\ pc' = "done"
    /\ UNCHANGED <<ivars, sweep, i, _abort, _paused, runner, remaining, elapsed, writer, hist>>

\* ---------------------------------------- controller handlers and the writer

\* HDF5RunWriter.write(index, atom): refused when the file is closed or the
\* index was already written
WriterWrite(w, index) ==
    IF w.open /\ \A k \in 1..Len(w.data) : w.data[k] # index
    THEN [w EXCEPT !.data = Append(@, index)]
    ELSE [w EXCEPT !.error = TRUE]

\* a close() that keeps its handles: every call records a status and closes
WriterClose_keepshandles(w, status) ==
    [w EXCEPT !.open = FALSE, !.status = status, !.closes = @ + 1]

\* HDF5RunWriter.close(status): the status is recorded only while the run
\* group is still open; the handles are dropped
WriterClose(w, status) ==
    IF w.open
    THEN [w EXCEPT !.open = FALSE, !.status = status, !.closes = @ + 1]
    ELSE w

\* AppController._cleanup_experiment, the slot of thread.finished:
\* close(status="aborted") when a writer is still attached, then
\* _reset_experiment_state() drops the reference
_cleanup_experiment(w) ==
    IF w.attached
    THEN [WriterClose(w, "aborted") EXCEPT !.attached = FALSE]
    ELSE w

\* The slots connected in AppController._start_worker_thread, run by the
\* controlling thread's event loop in emission order:
\* data_ready -> writer.write(atom.index, atom); aborted -> writer.close("aborted");
\* finished -> writer.close("completed"), thread.quit, whose thread.finished
\* then runs _cleanup_experiment
handle_signal ==
    /\ queue # <<>>
    /\ \/ /\ Head(queue).ev = "data_ready"
          /\ writer' = WriterWrite(writer, Head(queue).i)
          /\ queue' = Tail(queue)
       \/ /\ Head(queue).ev = "aborted"
          /\ writer' = WriterClose(writer, "aborted")
          /\ queue' = Tail(queue)
       \/ /\ Head(queue).ev = "finished"
          /\ writer' = WriterClose(writer, "completed")
          /\ queue' = Append(Tail(queue), Ev("thread_finished", 0, ""))
       \/ /\ Head(queue).ev = "thread_finished"
          /\ writer' = _cleanup_experiment(writer)
          /\ queue' = Tail(queue)
    /\ UNCHANGED <<ivars, sweep, pc, i, _abort, _paused, runner, remaining, elapsed, log, hist>>

\* ------------------------------------------------------------ specification

Next ==
    \/ abort
    \/ pause
    \/ resume
    \/ run_begin
    \/ run_for
    \/ _check_abort
    \/ _wait_if_paused
    \/ pause_msleep
    \/ goto
    \/ settle
    \/ settle_msleep
    \/ dwell
    \/ _controlled_sleep
    \/ dwell_msleep
    \/ begin_averaging
    \/ _wait_for_averaging
    \/ averaging_msleep
    \/ _capture_data
    \/ _safe_dump
    \/ end_averaging
    \/ run_finally
    \/ handle_signal

Spec == Init /\ [][Next]_allvars

\* ------------------------------------------- no experiment built or running

\* AppController._reset_experiment_state(): no sweep, worker or writer.
NoExperiment ==
    /\ sweep = [start |-> 1, stop |-> 1, step |-> 1, dwell_q |-> 0, blocking |-> FALSE]
    /\ pc = "done"
    /\ i = 0
    /\ _abort = FALSE
    /\ _paused = FALSE
    /\ runner = [_abort |-> FALSE, safe_dump_dir |-> FALSE]
    /\ remaining = 0
    /\ elapsed = 0
    /\ log = <<>>
    /\ queue = <<>>
    /\ writer = [open |-> FALSE, status |-> "", data |-> <<>>, closes |-> 0,
                 error |-> FALSE, attached |-> FALSE]
    /\ hist = [abort_in |-> "", abort_i |-> 0, sleeps |-> 0, raised |-> "", raised_i |-> 0]

\* ----------------------------------------------------- the HAL connections

\* is_connected(): Teraflash needs both UDP sockets, Mercury its TCP socket.
is_connected(kind, socks) ==
    IF kind = "TeraflashTHzSystem"
    THEN "_udp_tx" \in socks /\ "_udp_rx" \in socks
    ELSE "sock" \in socks

\* What a close() of one of the HAL's sockets may do: "none" raises nowhere,
\* a socket name makes the close() of that socket raise.
CloseFails(kind) == {"none"} \cup { Sockets(kind)[k] : k \in DOMAIN Sockets(kind) }

\* TeraflashTHzSystem.disconnect / GenericMercuryController.disconnect: each
\* held socket is closed and its attribute set to None, in order; a close()
\* that raises leaves that attribute and the later ones as they were.
RECURSIVE CloseFrom(_, _, _, _)
CloseFrom(kind, socks, fail, k) ==
    IF k > Len(Sockets(kind))
    THEN [socks |-> socks, exc |-> ""]
    ELSE LET sk == Sockets(kind)[k] IN
         IF sk \in socks /\ fail = sk
         THEN [socks |-> socks, exc |-> "OSError:close"]
         ELSE CloseFrom(kind, socks \ {sk}, fail, k + 1)

HalDisconnect(kind, socks, fail) == CloseFrom(kind, socks, fail, 1)

\* How the far end answers a connect: reachable and answering, or one of the
\* failures the HAL's connect can meet.
Outcomes(kind) ==
    IF kind = "TeraflashTHzSystem"
    THEN {"ok", "unreachable", "probe_timeout", "probe_mismatch"}
    ELSE {"ok", "unreachable", "enumeration"}

AllSockets(kind) == { Sockets(kind)[k] : k \in DOMAIN Sockets(kind) }

\* TeraflashTHzSystem.connect: new sockets replace the attributes, bind, _probe;
\* on any exception self.disconnect() and re-raise.
TeraflashConnect(socks, outcome, fail) ==
    IF outcome = "ok"
    THEN [socks |-> AllSockets("TeraflashTHzSystem"), exc |-> ""]
    ELSE LET d == HalDisconnect("TeraflashTHzSystem",
                                AllSockets("TeraflashTHzSystem"), fail) IN
         [socks |-> d.socks, exc |-> IF d.exc = "" THEN outcome ELSE d.exc]

\* GenericMercuryController.connect: refuses when a socket is held; otherwise
\* socket, connect, get_devices; on any exception close the socket, drop it
\* and re-raise.
MercuryConnect(socks, outcome, fail) ==
    IF "sock" \in socks
    THEN [socks |-> socks, exc |-> "already_connected"]
    ELSE IF outcome = "ok"
    THEN [socks |-> {"sock"}, exc |-> ""]
    ELSE IF fail = "sock"
    THEN [socks |-> {"sock"}, exc |-> "OSError:close"]
    ELSE [socks |-> {}, exc |-> outcome]

HalConnect(kind, socks, outcome, fail) ==
    IF kind = "TeraflashTHzSystem"
    THEN TeraflashConnect(socks, outcome, fail)
    ELSE MercuryConnect(socks, outcome, fail)

\* ------------------------------------------------------- ConnectionEngine

\* Variant: a successful connect leaves the stored error alone.
EngineConnect_keepserror(n, r) ==
    /\ connected' = [connected EXCEPT ![n] = (r.exc = "")]
    /\ last_error' = [last_error EXCEPT ![n] = IF r.exc = "" THEN @ ELSE r.exc]

\* ConnectionEngine.connect: try HAL connect, connected True, last_error None,
\* return True; except Exception as e: connected False, last_error e, return False.
EngineConnect(n, r) ==
    /\ connected' = [connected EXCEPT ![n] = (r.exc = "")]
    /\ last_error' = [last_error EXCEPT ![n] = IF r.exc = "" THEN "None" ELSE r.exc]

DoConnect(n, r) ==
    /\ hal' = [hal EXCEPT ![n] = r.socks]
    /\ EngineConnect(n, r)

connect ==
    \E n \in Names :
    \E outcome \in Outcomes(Kind(n)), fail \in CloseFails(Kind(n)) :
        LET r == HalConnect(Kind(n), hal[n], outcome, fail) IN
        /\ DoConnect(n, r)
        /\ attempts' = [attempts EXCEPT ![n] = [last |-> IF r.exc = "" THEN "ok" ELSE r.exc,
                                                prev |-> @.last]]
        /\ call' = [op |-> "connect", name |-> n, was |-> connected[n],
                    hal_called |-> TRUE, raised |-> FALSE, again |-> FALSE,
                    exc |-> r.exc]
        /\ UNCHANGED <<vars, ovars, tvars, gvars, rvars>>

\* Variant: no early return, the HAL is asked to disconnect every time.
EngineDisconnect_always(n, fail) ==
    LET d == HalDisconnect(Kind(n), hal[n], fail) IN
    [socks |-> d.socks, exc |-> d.exc, flag |-> FALSE, hal_called |-> TRUE]

\* Variant: the flag is cleared after the HAL call instead of in a finally.
EngineDisconnect_nofinally(n, fail) ==
    IF ~connected[n]
    THEN [socks |-> hal[n], exc |-> "", flag |-> connected[n], hal_called |-> FALSE]
    ELSE LET d == HalDisconnect(Kind(n), hal[n], fail) IN
         [socks |-> d.socks, exc |-> d.exc, flag |-> (d.exc # ""), hal_called |-> TRUE]

\* ConnectionEngine.disconnect on a known name: return at once when the flag
\* is not set; otherwise HAL disconnect, and in the finally the flag is cleared.
EngineDisconnect(n, fail) ==
    IF ~connected[n]
    THEN [socks |-> hal[n], exc |-> "", flag |-> connected[n], hal_called |-> FALSE]
    ELSE LET d == HalDisconnect(Kind(n), hal[n], fail) IN
         [socks |-> d.socks, exc |-> d.exc, flag |-> FALSE, hal_called |-> TRUE]

DoDisconnect(n, d) ==
    /\ hal' = [hal EXCEPT ![n] = d.socks]
    /\ connected' = [connected EXCEPT ![n] = d.flag]
    /\ UNCHANGED last_error

disconnect ==
    \E n \in Names :
    \E fail \in CloseFails(Kind(n)) :
        LET d == EngineDisconnect(n, fail) IN
        /\ DoDisconnect(n, d)
        /\ call' = [op |-> "disconnect", name |-> n, was |-> connected[n],
                    hal_called |-> d.hal_called, raised |-> (d.exc # ""),
                    again |-> (call.op = "disconnect" /\ call.name = n),
                    exc |-> d.exc]
        /\ UNCHANGED <<attempts, vars, ovars, tvars, gvars, rvars>>

InitEngine == NoExperiment /\ InitInstruments

NextEngine ==
    \/ connect
    \/ disconnect

SpecEngine == InitEngine /\ [][NextEngine]_allvars

\* ------------------------------------------------- InstrumentController

\* connect(name, address), line 60: if name in self._connecting: return False
ic_connect_check(t) ==
    /\ thread[t].pc = "idle"
    /\ \E n \in Names :
        thread' = [thread EXCEPT ![t] =
                      IF n \in _connecting
                      THEN [pc |-> "idle", name |-> "", result |-> "rejected"]
                      ELSE [pc |-> "add", name |-> n, result |-> ""]]
    /\ UNCHANGED <<vars, ovars, tvars, evars, rvars, _connecting>>

\* line 64: self._connecting.add(name)
ic_connect_add(t) ==
    /\ thread[t].pc = "add"
    /\ _connecting' = _connecting \cup {thread[t].name}
    /\ thread' = [thread EXCEPT ![t].pc = "engine"]
    /\ UNCHANGED <<vars, ovars, tvars, evars, rvars>>

\* lines 66-80: ok = self._connection_engine.connect(name, address)
ic_connect_engine(t) ==
    /\ thread[t].pc = "engine"
    /\ \E outcome \in Outcomes(Kind(thread[t].name)),
          fail \in CloseFails(Kind(thread[t].name)) :
        LET n == thread[t].name
            r == HalConnect(Kind(n), hal[n], outcome, fail)
        IN  /\ DoConnect(n, r)
            /\ thread' = [thread EXCEPT ![t].pc = "finally",
                                        ![t].result = IF r.exc = ""
                                                      THEN "True" ELSE "False"]
    /\ UNCHANGED <<vars, ovars, tvars, rvars, attempts, call, _connecting>>

\* the guard released only when the attempt succeeded
ic_connect_finally_onsuccess(t) ==
    /\ thread[t].pc = "finally"
    /\ _connecting' = IF thread[t].result = "True"
                      THEN _connecting \ {thread[t].name} ELSE _connecting
    /\ thread' = [thread EXCEPT ![t] =
                      [pc |-> "idle", name |-> "", result |-> thread[t].result]]
    /\ UNCHANGED <<vars, ovars, tvars, evars, rvars>>

\* line 84, finally: self._connecting.remove(name), KeyError when absent
ic_connect_finally(t) ==
    /\ thread[t].pc = "finally"
    /\ _connecting' = _connecting \ {thread[t].name}
    /\ thread' = [thread EXCEPT ![t] =
                      [pc |-> "idle", name |-> "",
                       result |-> IF thread[t].name \in _connecting
                                  THEN thread[t].result ELSE "KeyError"]]
    /\ UNCHANGED <<vars, ovars, tvars, evars, rvars>>

\* disconnect(name): refused while the name is connecting, else the engine's
\* disconnect, whose exception is not caught
ic_disconnect(t) ==
    /\ thread[t].pc = "idle"
    /\ \E n \in Names :
        IF n \in _connecting
        THEN /\ thread' = [thread EXCEPT ![t] = [pc |-> "idle", name |-> "",
                                                 result |-> "refused"]]
             /\ UNCHANGED <<hal, connected, last_error>>
        ELSE \E fail \in CloseFails(Kind(n)) :
             LET d == EngineDisconnect(n, fail) IN
             /\ DoDisconnect(n, d)
             /\ thread' = [thread EXCEPT ![t] = [pc |-> "idle", name |-> "",
                                                 result |-> IF d.exc = "" THEN "None"
                                                            ELSE d.exc]]
    /\ UNCHANGED <<vars, ovars, tvars, rvars, attempts, call, _connecting>>

InitGuard == NoExperiment /\ InitInstruments

NextGuard ==
    \E t \in Threads :
        \/ ic_connect_check(t)
        \/ ic_connect_add(t)
        \/ ic_connect_engine(t)
        \/ ic_connect_finally(t)
        \/ ic_disconnect(t)

SpecGuard == InitGuard /\ [][NextGuard]_allvars

\* --------------------------------------------------- InstrumentRegistry

HalKinds == {"TeraflashTHzSystem", "GenericMercuryController"}

\* names(): list(self._instruments.keys())
names == { _instruments[k].name : k \in DOMAIN _instruments }

\* self._instruments[name]
Lookup(n) == _instruments[CHOOSE k \in DOMAIN _instruments : _instruments[k].name = n]

\* Variant: the name is bound to the new object whether or not it was taken.
RegistryRegister_overwrite(n, inst) ==
    IF n \in names
    THEN [insts |-> [k \in DOMAIN _instruments |->
                        IF _instruments[k].name = n THEN inst ELSE _instruments[k]],
          raised |-> ""]
    ELSE [insts |-> Append(_instruments, inst), raised |-> ""]

\* register: ValueError when the name is taken, else the object is stored.
RegistryRegister(n, inst) ==
    IF n \in names
    THEN [insts |-> _instruments, raised |-> "ValueError"]
    ELSE [insts |-> Append(_instruments, inst), raised |-> ""]

\* register(name, instrument) with a newly constructed HAL object
register ==
    /\ created < MaxInstances
    /\ \E n \in Names, kind \in HalKinds :
        LET inst == [name |-> n, id |-> created + 1, kind |-> kind, socks |-> {}]
            r == RegistryRegister(n, inst)
        IN  /\ _instruments' = r.insts
            /\ created' = created + 1
            /\ first' = IF first[n] = 0 THEN [first EXCEPT ![n] = created + 1] ELSE first
            /\ rcall' = [op |-> "register", name |-> n, id |-> created + 1,
                         raised |-> r.raised, attempted |-> {}]
    /\ UNCHANGED <<vars, ovars, tvars, evars, gvars>>

\* get(name): the stored object, KeyError when the name is absent
get ==
    /\ \E n \in Names :
        rcall' = IF n \in names
                 THEN [op |-> "get", name |-> n, id |-> Lookup(n).id, raised |-> "",
                       attempted |-> {}]
                 ELSE [op |-> "get", name |-> n, id |-> 0, raised |-> "KeyError",
                       attempted |-> {}]
    /\ UNCHANGED <<vars, ovars, tvars, evars, gvars, _instruments, created, first>>

\* A registered HAL object is connected by one of the engines holding the
\* registry: registry.get(name).connect(address).
instrument_connect ==
    /\ \E k \in DOMAIN _instruments :
       \E outcome \in Outcomes(_instruments[k].kind),
          fail \in CloseFails(_instruments[k].kind) :
        LET r == HalConnect(_instruments[k].kind, _instruments[k].socks, outcome, fail)
        IN  _instruments' = [_instruments EXCEPT ![k].socks = r.socks]
    /\ UNCHANGED <<vars, ovars, tvars, evars, gvars, created, first, rcall>>

\* disconnect_all: for name in self.names(): self.get(name).disconnect().
\* fails says, per registered object, which close() raises; the first
\* disconnect that raises ends the loop and the call.
RECURSIVE DisconnectFrom(_, _, _, _)
DisconnectFrom(insts, fails, k, attempted) ==
    IF k > Len(insts)
    THEN [insts |-> insts, raised |-> "", attempted |-> attempted]
    ELSE LET d == HalDisconnect(insts[k].kind, insts[k].socks, fails[k])
             after == [insts EXCEPT ![k].socks = d.socks]
         IN  IF d.exc # ""
             THEN [insts |-> after, raised |-> d.exc,
                   attempted |-> attempted \cup {insts[k].name}]
             ELSE DisconnectFrom(after, fails, k + 1, attempted \cup {insts[k].name})

CloseFailsOf(insts) ==
    { f \in [DOMAIN insts -> {"none", "_udp_tx", "_udp_rx", "sock"}] :
        \A k \in DOMAIN insts : f[k] \in CloseFails(insts[k].kind) }

disconnect_all ==
    /\ \E fails \in CloseFailsOf(_instruments) :
        LET r == DisconnectFrom(_instruments, fails, 1, {}) IN
        /\ _instruments' = r.insts
        /\ rcall' = [op |-> "disconnect_all", name |-> "", id |-> 0,
                     raised |-> r.raised, attempted |-> r.attempted]
    /\ UNCHANGED <<vars, ovars, tvars, evars, gvars, created, first>>

InitRegistry == NoExperiment /\ InitInstruments

NextRegistry ==
    \/ register
    \/ get
    \/ instrument_connect
    \/ disconnect_all

SpecRegistry == InitRegistry /\ [][NextRegistry]_allvars

\* ------------------------------------- TeraflashTHzSystem.acquire_trace

\* first packet: 6-byte length
HeaderBytes == 6

\* What the far end does on TCP_SYNC_PORT during one acquisition: accept the
\* connection or not, send `header` of the 6 header bytes (numeric or not,
\* declaring `declared` payload bytes; MaxTraceLength stands for the
\* 10,000,000 byte limit), send `payload` payload bytes, and then either
\* close the connection or fall silent.
Peers ==
    [accepts : BOOLEAN, numeric : BOOLEAN, declared : -1..(MaxTraceLength + 1),
     header : 0..HeaderBytes, payload : 0..(MaxTraceLength + 1),
     then : {"close", "stall"}]

\* Variant: on an empty chunk _recv_exact hands back what it has.
RecvEnd_partial(a, then, next) ==
    IF then = "close"
    THEN [a EXCEPT !.pc = next]
    ELSE [a EXCEPT !.pc = "finally", !.exc = "socket.timeout"]

\* _recv_exact with nothing more to come: recv returns b"" after the far end
\* closed (RuntimeError) or times out (socket.timeout)
RecvEnd(a, then, next) ==
    IF then = "close"
    THEN [a EXCEPT !.pc = "finally", !.exc = "RuntimeError"]
    ELSE [a EXCEPT !.pc = "finally", !.exc = "socket.timeout"]

\* acquire_trace up to the socket: RuntimeError when not connected, the
\* is_running() query may raise, then sock = socket.socket(...)
acquire_trace ==
    /\ acq.pc = "idle"
    /\ acq.result = ""
    /\ \E pre \in {"ok", "not_connected", "query_error"} :
        acq' = IF pre = "ok"
               THEN [acq EXCEPT !.pc = "connect", !.sock = "open"]
               ELSE [acq EXCEPT !.pc = "done", !.exc = pre, !.result = "raised"]
    /\ UNCHANGED <<vars, ovars, evars, gvars, rvars, peer>>

\* sock.settimeout(self.timeout); sock.connect((self.host, self.TCP_SYNC_PORT))
tcp_connect ==
    /\ acq.pc = "connect"
    /\ acq' = IF peer.accepts
              THEN [acq EXCEPT !.pc = "header"]
              ELSE [acq EXCEPT !.pc = "finally", !.exc = "OSError:connect"]
    /\ UNCHANGED <<vars, ovars, evars, gvars, rvars, peer>>

\* length_bytes = self._recv_exact(sock, 6): one recv per step, the loop
\* ends with the recv that completes the 6 bytes
recv_header ==
    /\ acq.pc = "header"
    /\ \/ /\ acq.hdr < peer.header
          /\ \E c \in 1..(HeaderBytes - acq.hdr) :
              /\ acq.hdr + c <= peer.header
              /\ acq' = [acq EXCEPT !.hdr = @ + c,
                                    !.pc = IF acq.hdr + c = HeaderBytes
                                           THEN "length" ELSE "header"]
       \/ /\ acq.hdr >= peer.header
          /\ acq' = RecvEnd(acq, peer.then, "length")
    /\ UNCHANGED <<vars, ovars, evars, gvars, rvars, peer>>

\* length = int(length_bytes.decode("ascii")); length <= 0 or
\* length > 10_000_000 raises ValueError
parse_length ==
    /\ acq.pc = "length"
    /\ acq' = IF ~peer.numeric \/ peer.declared <= 0 \/ peer.declared > MaxTraceLength
              THEN [acq EXCEPT !.pc = "finally", !.exc = "ValueError"]
              ELSE [acq EXCEPT !.pc = "payload"]
    /\ UNCHANGED <<vars, ovars, evars, gvars, rvars, peer>>

\* payload = self._recv_exact(sock, length): one recv per step, the loop
\* ends with the recv that completes the declared length
recv_payload ==
    /\ acq.pc = "payload"
    /\ \/ /\ acq.data < peer.payload
          /\ \E c \in 1..(peer.declared - acq.data) :
              /\ acq.data + c <= peer.payload
              /\ acq' = [acq EXCEPT !.data = @ + c, !.payload_read = TRUE,
                                    !.pc = IF acq.data + c = peer.declared
                                           THEN "parse" ELSE "payload"]
       \/ /\ acq.data >= peer.payload
          /\ acq' = [RecvEnd(acq, peer.then, "parse") EXCEPT !.payload_read = TRUE]
    /\ UNCHANGED <<vars, ovars, evars, gvars, rvars, peer>>

\* .decode("utf-8"); trace = self._parse_trace(payload): a trace, or an
\* exception for a payload that does not parse
_parse_trace ==
    /\ acq.pc = "parse"
    /\ \/ acq' = [acq EXCEPT !.pc = "finally", !.result = "trace"]
       \/ acq' = [acq EXCEPT !.pc = "finally", !.exc = "ValueError:parse"]
    /\ UNCHANGED <<vars, ovars, evars, gvars, rvars, peer>>

\* finally: sock.close(); then the return or the exception reaches the caller
acquire_finally ==
    /\ acq.pc = "finally"
    /\ acq' = [acq EXCEPT !.pc = "done", !.sock = "closed",
                          !.result = IF acq.exc # "" THEN "raised" ELSE acq.result]
    /\ UNCHANGED <<vars, ovars, evars, gvars, rvars, peer>>

InitTrace ==
    /\ NoExperiment
    /\ InstrumentsAtRest
    /\ OthersAtRest
    /\ peer \in Peers
    /\ acq = NoAcquisition

NextTrace ==
    \/ acquire_trace
    \/ tcp_connect
    \/ recv_header
    \/ parse_length
    \/ recv_payload
    \/ _parse_trace
    \/ acquire_finally

SpecTrace == InitTrace /\ [][NextTrace]_allvars

\* ------------------------------------------------------------ SweepConfig

\* The sweep configurations a caller may try to construct, valid or not.
SweepArgs == [start : 0..MaxGrid, stop : 0..MaxGrid, step : -MaxStepG..MaxStepG]

\* Everything but the SweepConfig under construction.
nonsweep == <<vars, evars, gvars, rvars, tvars, hvars, kvars, mvars, fvars>>

\* SweepConfig(start, stop, step): the dataclass constructor runs __post_init__.
SweepConfig ==
    /\ built = ""
    /\ built' = __post_init__(cfg)
    /\ UNCHANGED <<nonsweep, cfg, pts, npts>>

\* list(config.points()) on a constructed SweepConfig.
points_call ==
    /\ built = "ok"
    /\ pts = <<>>
    /\ pts' = points(cfg)
    /\ UNCHANGED <<nonsweep, cfg, built, npts>>

\* config.npoints() on a constructed SweepConfig.
npoints_call ==
    /\ built = "ok"
    /\ npts = -1
    /\ npts' = npoints(cfg)
    /\ UNCHANGED <<nonsweep, cfg, built, pts>>

InitSweep ==
    /\ NoExperiment
    /\ InstrumentsAtRest
    /\ peer = NoPeer
    /\ acq = NoAcquisition
    /\ NoCommand
    /\ ControllerIdle
    /\ NoAxis
    /\ cfg \in SweepArgs
    /\ built = ""
    /\ pts = <<>>
    /\ npts = -1

NextSweep == SweepConfig \/ points_call \/ npoints_call

SpecSweep == InitSweep /\ [][NextSweep]_allvars

\* ------------------------------------------------------------ HAL commands

\* What the instrument end does with one command: it answers with a line, it
\* stays silent until the socket timeout expires, or (Mercury, TCP) it closes
\* the connection.  A line is a sequence of pieces cut where the code's
\* startswith / endswith / split tests cut it.
Answer(text) == [ev |-> "reply", text |-> text]

Silent == [ev |-> "timeout", text |-> <<>>]

Closed == [ev |-> "closed", text |-> <<>>]

\* Replies to a set command: accepted, refused, and for Mercury the refusal
\* "...:INVALID", whose last five characters are "VALID".
SetReplies(kind) ==
    IF kind = "TeraflashTHzSystem"
    THEN {Answer(<<"OK">>), Answer(<<"OK", " 1">>), Answer(<<"E", "-1">>), Silent}
    ELSE {Answer(<<"STAT:SET:", "VALID">>), Answer(<<"STAT:SET:", "IN", "VALID">>),
          Answer(<<"?">>), Silent, Closed}

\* Replies to a state read (RD-LASER, RD-VOLT, RD-RUN).
StateReplies == {Answer(<<"ON">>), Answer(<<"OFF">>), Silent}

\* Replies to a numeric read: a number, a line that is no number, silence.
NumberReplies == { Answer(<<ToString(v)>>) : v \in 0..MaxTac } \cup {Answer(<<"?">>), Silent}

\* _send_command of either class: raise if not connected, otherwise send the
\* command and return the stripped reply line; a receive timeout raises, and
\* Mercury raises on an empty chunk.
_send_command(kind, socks, w) ==
    IF ~is_connected(kind, socks)
    THEN [sent |-> 0, exc |-> "RuntimeError:not_connected", response |-> <<>>]
    ELSE IF w.ev = "timeout" THEN [sent |-> 1, exc |-> "timeout", response |-> <<>>]
    ELSE IF w.ev = "closed" THEN [sent |-> 1, exc |-> "RuntimeError:closed", response |-> <<>>]
    ELSE [sent |-> 1, exc |-> "", response |-> w.text]

\* _expect_ok: response.startswith("OK"); _expect_valid: response.endswith("VALID").
Accepts(kind, response) ==
    IF kind = "TeraflashTHzSystem"
    THEN response # <<>> /\ response[1] = "OK"
    ELSE response # <<>> /\ response[Len(response)] = "VALID"

\* How a call ended, for the history: not at all on the wire, by the
\* transport, or by a reply the protocol check refused.
CauseOf(c, accepted) ==
    IF c.exc # "" THEN (IF c.sent = 0 THEN "not_connected" ELSE "transport")
    ELSE IF accepted THEN "ok" ELSE "protocol"

\* Variant: a refused reply also tears the control sockets down.
HalSet_teardown(kind, socks, w) ==
    LET c == _send_command(kind, socks, w)
        ok == c.exc = "" /\ Accepts(kind, c.response)
    IN  [socks |-> IF c.exc = "" /\ ~ok THEN {} ELSE socks, sent |-> c.sent,
         exc |-> IF ok THEN "" ELSE "RuntimeError:set_failed",
         cause |-> CauseOf(c, ok)]

\* _set of either class: every exception of _send_command and of the reply
\* check is re-raised as RuntimeError; the sockets are not touched.
HalSet(kind, socks, w) ==
    LET c == _send_command(kind, socks, w)
        ok == c.exc = "" /\ Accepts(kind, c.response)
    IN  [socks |-> socks, sent |-> c.sent,
         exc |-> IF ok THEN "" ELSE "RuntimeError:set_failed",
         cause |-> CauseOf(c, ok)]

\* int(response) / float(response) succeed on the decimal numerals.
Numeric(tok) == \E v \in 0..MaxTac : ToString(v) = tok

NumOf(tok) == CHOOSE v \in 0..MaxTac : ToString(v) = tok

\* TeraflashTHzSystem._read: the reply converted by astype; a reply that does
\* not convert is returned as the string it is.
TeraflashRead(socks, w, astype) ==
    LET c == _send_command("TeraflashTHzSystem", socks, w)
        tok == IF c.response = <<>> THEN "" ELSE c.response[1]
    IN  IF c.exc # ""
        THEN [sent |-> c.sent, exc |-> c.exc, type |-> "", text |-> "", num |-> 0]
        ELSE IF astype = "str" \/ ~Numeric(tok)
        THEN [sent |-> 1, exc |-> "", type |-> "str", text |-> tok, num |-> 0]
        ELSE [sent |-> 1, exc |-> "", type |-> astype, text |-> tok, num |-> NumOf(tok)]

\* The record the history keeps of one HAL call.
HalCall(op, arg, n, r, ret, num, failed) ==
    [op |-> op, arg |-> arg, name |-> n, socks |-> hal[n], sent |-> r.sent, exc |-> r.exc,
     cause |-> r.cause, after |-> hlast[n], failed |-> failed, ret |-> ret, num |-> num,
     avg |-> NoAveraging, snap |-> NoSnapshot]

\* A call on the HAL object of n that left its sockets as r.socks.
HalCalled(op, arg, n, r, ret, num, failed) ==
    /\ hal' = [hal EXCEPT ![n] = r.socks]
    /\ hcall' = HalCall(op, arg, n, r, ret, num, failed)
    /\ hlast' = [hlast EXCEPT ![n] = (r.cause = "protocol")]

\* Everything a HAL call leaves alone.
nonhal ==
    <<vars, gvars, rvars, tvars, svars, kvars, mvars, fvars, connected, last_error, attempts,
      call>>

\* A set command of either HAL class (set_laser_on, set_auto_off, ... /
\* the Mercury _set).
hal_set ==
    \E n \in Names :
    \E w \in SetReplies(Kind(n)) :
        /\ HalCalled("set", "", n, HalSet(Kind(n), hal[n], w), NoRet, 0, {})
        /\ UNCHANGED nonhal

\* is_running(): False when not connected; otherwise the three state reads,
\* each made only if the one before returned "ON".
StateReads == <<"RD-LASER", "RD-VOLT", "RD-RUN">>

RECURSIVE RunningFrom(_, _, _)
RunningFrom(socks, o, k) ==
    IF k > Len(StateReads)
    THEN [sent |-> k - 1, exc |-> "", value |-> TRUE, failed |-> {}]
    ELSE LET r == TeraflashRead(socks, o[StateReads[k]], "str") IN
         IF r.exc # ""
         THEN [sent |-> k, exc |-> r.exc, value |-> FALSE, failed |-> {StateReads[k]}]
         ELSE IF r.text # "ON"
         THEN [sent |-> k, exc |-> "", value |-> FALSE, failed |-> {}]
         ELSE RunningFrom(socks, o, k + 1)

is_running(socks, o) ==
    IF ~is_connected("TeraflashTHzSystem", socks)
    THEN [sent |-> 0, exc |-> "", value |-> FALSE, failed |-> {}]
    ELSE RunningFrom(socks, o, 1)

StateOutcomes == [{"RD-LASER", "RD-VOLT", "RD-RUN"} -> StateReplies]

\* What the TCP side of one acquire_trace may end in: the trace, a refused
\* or broken connection, a header that is no number, a length outside
\* 1..10,000,000, a payload whose columns do not match its header.
TraceOutcomes ==
    {"ok", "refused", "closed", "timeout", "ValueError:int", "ValueError:length",
     "ValueError:columns"}

\* TeraflashTHzSystem.acquire_trace as one call: not connected raises; the
\* is_running() reads run before the TCP socket exists; nothing in it touches
\* the UDP control sockets.
AcquireTrace(socks, o, tcp) ==
    IF ~is_connected("TeraflashTHzSystem", socks)
    THEN [socks |-> socks, sent |-> 0, exc |-> "RuntimeError:not_connected",
          cause |-> "not_connected"]
    ELSE LET run == is_running(socks, o) IN
         IF run.exc # ""
         THEN [socks |-> socks, sent |-> run.sent, exc |-> run.exc, cause |-> "transport"]
         ELSE [socks |-> socks, sent |-> run.sent,
               exc |-> IF tcp = "ok" THEN "" ELSE tcp,
               cause |-> IF tcp = "ok" THEN "ok"
                         ELSE IF tcp \in {"ValueError:int", "ValueError:length",
                                          "ValueError:columns"}
                         THEN "protocol" ELSE "transport"]

hal_acquire_trace ==
    \E o \in StateOutcomes, tcp \in TraceOutcomes :
        /\ HalCalled("acquire_trace", "", "thz", AcquireTrace(hal["thz"], o, tcp),
                     NoRet, 0, {})
        /\ UNCHANGED nonhal

\* The device catalogue of a Mercury: enumerated by connect(), emptied by
\* disconnect().  The kind of a device is the second field of its id.
DeviceKind(dev) == IF dev = "T1" THEN "TEMP" ELSE "HTR"

devices(socks) == IF "sock" \in socks THEN {"T1", "H1"} ELSE {}

\* The typed accessors: read_temperature, read_power, set_temperature_setpoint.
TypedAccessors ==
    {[op |-> "read", expected_kind |-> "TEMP"], [op |-> "read", expected_kind |-> "HTR"],
     [op |-> "set", expected_kind |-> "TEMP"]}

MercuryReadReplies ==
    { Answer(<<"STAT:DEV:", ToString(v)>>) : v \in 0..MaxTac }
        \cup {Answer(<<"STAT:DEV:", "INVALID">>), Silent, Closed}

\* Variant: the command goes out before the device kind is looked at.
MercuryAccessor_checkafter(socks, acc, dev, w) ==
    LET c == _send_command("GenericMercuryController", socks, w) IN
    IF dev \notin devices(socks)
    THEN [socks |-> socks, sent |-> 0, exc |-> "KeyError", cause |-> "programmer", value |-> ""]
    ELSE IF c.exc # ""
    THEN [socks |-> socks, sent |-> c.sent, exc |-> c.exc, cause |-> CauseOf(c, TRUE),
          value |-> ""]
    ELSE IF DeviceKind(dev) # acc.expected_kind
    THEN [socks |-> socks, sent |-> c.sent, exc |-> "RuntimeError:kind_mismatch",
          cause |-> "programmer", value |-> ""]
    ELSE [socks |-> socks, sent |-> c.sent, exc |-> "", cause |-> "ok",
          value |-> c.response[Len(c.response)]]

\* _read_device / _set_device with expected_kind given: the device id is looked
\* up (KeyError for an unknown name), its kind is checked, and only then is
\* the command sent.  A read returns the last field of the reply, converted,
\* or as it is when it does not convert (the unit suffix is not modelled).
MercuryAccessor(socks, acc, dev, w) ==
    IF dev \notin devices(socks)
    THEN [socks |-> socks, sent |-> 0, exc |-> "KeyError", cause |-> "programmer", value |-> ""]
    ELSE IF DeviceKind(dev) # acc.expected_kind
    THEN [socks |-> socks, sent |-> 0, exc |-> "RuntimeError:kind_mismatch",
          cause |-> "programmer", value |-> ""]
    ELSE IF acc.op = "set"
    THEN LET r == HalSet("GenericMercuryController", socks, w) IN
         [socks |-> r.socks, sent |-> r.sent, exc |-> r.exc, cause |-> r.cause, value |-> ""]
    ELSE LET c == _send_command("GenericMercuryController", socks, w) IN
         IF c.exc # ""
         THEN [socks |-> socks, sent |-> c.sent, exc |-> c.exc, cause |-> CauseOf(c, TRUE),
               value |-> ""]
         ELSE [socks |-> socks, sent |-> c.sent, exc |-> "", cause |-> "ok",
               value |-> c.response[Len(c.response)]]

\* How the device named relates to the accessor called on it.
KindRelation(socks, acc, dev) ==
    IF dev \notin devices(socks) THEN "unknown"
    ELSE IF DeviceKind(dev) # acc.expected_kind THEN "mismatch" ELSE "match"

mercury_accessor ==
    \E acc \in TypedAccessors, dev \in {"T1", "H1", "nodev"} :
    \E w \in IF acc.op = "set" THEN SetReplies("GenericMercuryController")
             ELSE MercuryReadReplies :
        LET r == MercuryAccessor(hal["temp"], acc, dev, w) IN
        /\ HalCalled(acc.op, KindRelation(hal["temp"], acc, dev), "temp", r,
                     [NoRet EXCEPT !.value = r.value], 0, {})
        /\ UNCHANGED nonhal

\* The reads behind the status fields average_points, tac_time_s and
\* amplitude_nA, with the conversion each asks for.
NumberReads == {"RD-AVERAGE", "RD-TAC.TIME", "RD-AMPLITUDE"}

StatusNumberReplies == {Answer(<<"0">>), Silent}

StatusOutcomes ==
    { [c \in {"RD-LASER", "RD-VOLT", "RD-RUN"} \cup NumberReads |->
          IF c \in NumberReads THEN b[c] ELSE a[c]] :
        a \in [{"RD-LASER", "RD-VOLT", "RD-RUN"} -> StateReplies],
        b \in [NumberReads -> StatusNumberReplies] }

\* _safe(fn): the value, or None when fn raised.
_safe(r) == IF r.exc # "" THEN "None" ELSE r.text

\* Whether a read went out and raised.
ReadFailed(r) == r.sent = 1 /\ r.exc # ""

\* TeraflashTHzSystem.status(): the dict entries are evaluated in order;
\* is_running() is called bare, the three numeric reads through _safe.
status(socks, o) ==
    LET run == is_running(socks, o)
        avg == TeraflashRead(socks, o["RD-AVERAGE"], "int")
        tac == TeraflashRead(socks, o["RD-TAC.TIME"], "float")
        amp == TeraflashRead(socks, o["RD-AMPLITUDE"], "float")
    IN  IF run.exc # ""
        THEN [socks |-> socks, sent |-> run.sent, exc |-> run.exc, cause |-> "transport",
              failed |-> run.failed, ret |-> NoRet]
        ELSE [socks |-> socks, sent |-> run.sent + avg.sent + tac.sent + amp.sent,
              exc |-> "", cause |-> "ok",
              failed |-> {c \in {"RD-AVERAGE"} : ReadFailed(avg)}
                            \cup {c \in {"RD-TAC.TIME"} : ReadFailed(tac)}
                            \cup {c \in {"RD-AMPLITUDE"} : ReadFailed(amp)},
              ret |-> [running |-> IF run.value THEN "True" ELSE "False",
                       average_points |-> _safe(avg), tac_time_s |-> _safe(tac),
                       amplitude_nA |-> _safe(amp), value |-> ""]]

hal_status ==
    \E o \in StatusOutcomes :
        LET r == status(hal["thz"], o) IN
        /\ HalCalled("status", "", "thz", r, r.ret, 0, r.failed)
        /\ UNCHANGED nonhal

Max(a, b) == IF a >= b THEN a ELSE b

\* Variant: no except clause around the read and the arithmetic.
estimate_timeout_s_nocatch(socks, w) ==
    LET r == TeraflashRead(socks, w, "float") IN
    IF r.exc # ""
    THEN [socks |-> socks, sent |-> r.sent, exc |-> r.exc, cause |-> "transport",
          type |-> r.type, text |-> r.text, num |-> 0]
    ELSE IF r.type # "float"
    THEN [socks |-> socks, sent |-> r.sent, exc |-> "TypeError", cause |-> "protocol",
          type |-> r.type, text |-> r.text, num |-> 0]
    ELSE [socks |-> socks, sent |-> r.sent, exc |-> "", cause |-> "ok",
          type |-> r.type, text |-> r.text, num |-> Max(ThzTimeoutS, 2 * r.num + 3)]

\* CaptureEngine.estimate_timeout_s() on the registered THz instrument:
\* max(thz.timeout, 2.0 * tac + 3.0); a read that raises, and the TypeError of
\* 2.0 * tac when the read returned the unconverted string, are caught and
\* thz.timeout is returned.
estimate_timeout_s(socks, w) ==
    LET r == TeraflashRead(socks, w, "float") IN
    IF r.exc # "" \/ r.type # "float"
    THEN [socks |-> socks, sent |-> r.sent, exc |-> "", cause |-> "ok",
          type |-> r.type, text |-> r.text, num |-> ThzTimeoutS]
    ELSE [socks |-> socks, sent |-> r.sent, exc |-> "", cause |-> "ok",
          type |-> r.type, text |-> r.text, num |-> Max(ThzTimeoutS, 2 * r.num + 3)]

capture_estimate_timeout_s ==
    \E w \in NumberReplies :
        LET r == estimate_timeout_s(hal["thz"], w) IN
        /\ HalCalled("estimate_timeout_s", r.type, "thz", r,
                     [NoRet EXCEPT !.tac_time_s = r.text], r.num, {})
        /\ UNCHANGED nonhal

\* ------------------------------------------------------ averaging lifecycle

\* CaptureEngine.begin_averaging: set_auto_off(), set_wait_off(), set_auto_on();
\* CaptureEngine.end_averaging: set_auto_off(), set_wait_off().  Each is
\* _set("RC-AUTO" / "RC-WAIT", "ON" / "OFF").
AveragingCommands(op) ==
    IF op = "begin_averaging"
    THEN << <<"AUTO", "OFF">>, <<"WAIT", "OFF">>, <<"AUTO", "ON">> >>
    ELSE << <<"AUTO", "OFF">>, <<"WAIT", "OFF">> >>

RECURSIVE SetSequence_keepgoing(_, _, _, _)
\* Variant: a refused set is noted and the rest of the sequence still sent.
SetSequence_keepgoing(socks, cmds, ws, k) ==
    IF k > Len(cmds)
    THEN [socks |-> socks, sent |-> k - 1, exc |-> "", cause |-> "ok"]
    ELSE LET r == HalSet("TeraflashTHzSystem", socks, ws[k])
             rest == SetSequence_keepgoing(socks, cmds, ws, k + 1)
         IN  IF r.exc # "" /\ r.sent = 1
             THEN [rest EXCEPT !.exc = r.exc, !.cause = r.cause]
             ELSE IF r.exc # ""
             THEN [socks |-> socks, sent |-> k - 1, exc |-> r.exc, cause |-> r.cause]
             ELSE rest

RECURSIVE SetSequence(_, _, _, _)
\* The set calls of one lifecycle method, one after the other: the first
\* _set that raises ends the method, its RuntimeError propagating.
SetSequence(socks, cmds, ws, k) ==
    IF k > Len(cmds)
    THEN [socks |-> socks, sent |-> k - 1, exc |-> "", cause |-> "ok"]
    ELSE LET r == HalSet("TeraflashTHzSystem", socks, ws[k]) IN
         IF r.exc # ""
         THEN [socks |-> socks, sent |-> (k - 1) + r.sent, exc |-> r.exc,
               cause |-> r.cause]
         ELSE SetSequence(socks, cmds, ws, k + 1)

\* The instrument obeys a command it acknowledges with OK and ignores one it
\* answers with an error; of a command whose reply never came it may have
\* done either (ap).
Obeyed(w, ap) == (w.ev = "reply" /\ Accepts("TeraflashTHzSystem", w.text)) \/ (w.ev = "timeout" /\ ap)

RECURSIVE FlagsAfter(_, _, _, _, _)
FlagsAfter(flags, cmds, ws, aps, k) ==
    IF k > Len(cmds) THEN flags
    ELSE FlagsAfter(IF Obeyed(ws[k], aps[k])
                    THEN [flags EXCEPT ![cmds[k][1]] = cmds[k][2]] ELSE flags,
                    cmds, ws, aps, k + 1)

\* The flags as an earlier run may have left them: both off, or both on.
DeviceFlags == {[AUTO |-> "OFF", WAIT |-> "OFF"], [AUTO |-> "ON", WAIT |-> "ON"]}

\* What may become of one command of a sequence: acknowledged and obeyed,
\* answered with an error, or unanswered and then either obeyed or not.
AveragingOutcomes ==
    {[w |-> Answer(<<"OK">>), ap |-> TRUE], [w |-> Answer(<<"E", "-1">>), ap |-> FALSE],
     [w |-> Silent, ap |-> TRUE], [w |-> Silent, ap |-> FALSE]}

\* One lifecycle method called on the THz instrument.
Averaging(op, ws, aps, before) ==
    LET r == SetSequence(hal["thz"], AveragingCommands(op), ws, 1)
        sent == SubSeq(AveragingCommands(op), 1, r.sent)
    IN  /\ hal' = [hal EXCEPT !["thz"] = r.socks]
        /\ hcall' = [HalCall(op, "", "thz", r, NoRet, 0, {}) EXCEPT
                        !.avg = [cmds |-> sent, ws |-> SubSeq(ws, 1, r.sent),
                                 before |-> before,
                                 flags |-> FlagsAfter(before, sent, ws, aps, 1)]]
        /\ hlast' = [hlast EXCEPT !["thz"] = (r.cause = "protocol")]

capture_begin_averaging ==
    \E os \in [1..3 -> AveragingOutcomes], before \in DeviceFlags :
        /\ Averaging("begin_averaging", [k \in 1..3 |-> os[k].w],
                     [k \in 1..3 |-> os[k].ap], before)
        /\ UNCHANGED nonhal

capture_end_averaging ==
    \E os \in [1..2 -> AveragingOutcomes], before \in DeviceFlags :
        /\ Averaging("end_averaging", [k \in 1..2 |-> os[k].w],
                     [k \in 1..2 |-> os[k].ap], before)
        /\ UNCHANGED nonhal

\* Variant: any reply but "OFF" counts as done.
is_averaging_done_notoff(socks, w) ==
    LET r == TeraflashRead(socks, w, "str") IN
    [socks |-> socks, sent |-> r.sent, exc |-> r.exc,
     cause |-> IF r.exc = "" THEN "ok" ELSE IF r.sent = 0 THEN "not_connected" ELSE "transport",
     value |-> IF r.exc # "" THEN "" ELSE IF r.text # "OFF" THEN "True" ELSE "False"]

\* CaptureEngine.is_averaging_done(): thz.read_wait_state() == "ON", where
\* read_wait_state() is _read("RD-WAIT"); an exception of the read propagates.
is_averaging_done(socks, w) ==
    LET r == TeraflashRead(socks, w, "str") IN
    [socks |-> socks, sent |-> r.sent, exc |-> r.exc,
     cause |-> IF r.exc = "" THEN "ok" ELSE IF r.sent = 0 THEN "not_connected" ELSE "transport",
     value |-> IF r.exc # "" THEN "" ELSE IF r.text = "ON" THEN "True" ELSE "False"]

\* Replies to RD-WAIT: the two states, a line that is neither, silence.
WaitReplies == StateReplies \cup {Answer(<<"?">>)}

capture_is_averaging_done ==
    \E w \in WaitReplies :
        LET r == is_averaging_done(hal["thz"], w) IN
        /\ hal' = [hal EXCEPT !["thz"] = r.socks]
        /\ hcall' = [HalCall("is_averaging_done", "", "thz", r,
                              [NoRet EXCEPT !.value = r.value], 0, {}) EXCEPT
                        !.avg = [NoAveraging EXCEPT !.ws = <<w>>]]
        /\ hlast' = [hlast EXCEPT !["thz"] = FALSE]
        /\ UNCHANGED nonhal

\* --------------------------------------------------- Mercury status snapshot

MercuryClasses == {"GenericMercuryController", "MercuryIPSController"}

MercuryKinds == {"TEMP", "HTR", "PRES", "AUX", "PSU"}

\* The class attribute enabled_kinds, a dict from kind to bool: every kind True
\* in GenericMercuryController; HTR, PRES and AUX False in MercuryIPSController.
enabled_kinds(cls) ==
    [k \in MercuryKinds |->
        IF cls = "MercuryIPSController" THEN k \in {"TEMP", "PSU"} ELSE TRUE]

\* self.ignored_devices after __init__: empty lists, and for MercuryIPSController
\* the TEMP and PSU nicknames it names.
ignored_devices(cls) ==
    [k \in MercuryKinds |->
        IF cls # "MercuryIPSController" THEN {}
        ELSE IF k = "TEMP" THEN {"PT1_DB8"}
        ELSE IF k = "PSU" THEN {"GRPS", "GRPX", "GRPY", "PSU.M1", "PSU.M2"}
        ELSE {}]

\* Devices a catalogue (READ:SYS:CAT) may enumerate, nickname and kind, in
\* catalogue order; LVL is a kind no enabled_kinds mentions.
DeviceOrder ==
    << [name |-> "MB1_T1", kind |-> "TEMP"], [name |-> "PT1_DB8", kind |-> "TEMP"],
       [name |-> "MB0_H1", kind |-> "HTR"], [name |-> "DB5_P1", kind |-> "PRES"],
       [name |-> "GRPZ", kind |-> "PSU"], [name |-> "DB3_L1", kind |-> "LVL"] >>

\* The reads status() makes for one device of a kind.
StatusFields(kind) ==
    IF kind = "TEMP" THEN <<"reading_K", "setpoint_K", "auto">>
    ELSE IF kind = "HTR" THEN <<"power_W">>
    ELSE IF kind = "PRES" THEN <<"reading_mbar">>
    ELSE IF kind = "AUX" THEN <<"nvalve_percent">>
    ELSE <<"voltage_V", "current_A", "field_T", "current_target_A", "field_target_T",
           "current_rate_A_per_min", "field_rate_T_per_min", "heater", "magnet">>

\* Variant: a kind is polled when its enabled_kinds value is true.
Polled_byvalue(cls, kind) == kind \in DOMAIN enabled_kinds(cls) /\ enabled_kinds(cls)[kind]

\* status(): `if kind not in self.enabled_kinds: continue` tests the keys of
\* the dict.
Polled(cls, kind) == kind \in DOMAIN enabled_kinds(cls)

RECURSIVE StatusFrom(_, _, _)
\* GenericMercuryController.status(): for name in self.devices, skipping kinds
\* not in enabled_kinds and nicknames in ignored_devices[kind], one entry and
\* the reads of its kind per device.
StatusFrom(cls, devs, k) ==
    IF k > Len(DeviceOrder) THEN [entries |-> {}, reads |-> <<>>]
    ELSE LET d == DeviceOrder[k]
             rest == StatusFrom(cls, devs, k + 1)
         IN  IF d \notin devs \/ ~Polled(cls, d.kind) THEN rest
             ELSE IF d.name \in ignored_devices(cls)[d.kind] THEN rest
             ELSE [entries |-> {d} \cup rest.entries,
                   reads |-> [j \in 1..Len(StatusFields(d.kind)) |->
                                 <<d.name, StatusFields(d.kind)[j]>>] \o rest.reads]

\* status() of a Mercury object of class cls whose self.devices is devs:
\* the keys of the snapshot and what StatusFrom collects.
MercuryStatus(cls, devs) ==
    LET r == StatusFrom(cls, devs, 1) IN
    [cls |-> cls, devices |-> devs, keys |-> DOMAIN enabled_kinds(cls),
     entries |-> r.entries, reads |-> r.reads]

\* self.devices: what connect() enumerated, empty while not connected.
Catalogues(socks) ==
    IF socks = {} THEN {{}}
    ELSE SUBSET { DeviceOrder[k] : k \in DOMAIN DeviceOrder }

mercury_status ==
    \E cls \in MercuryClasses, devs \in Catalogues(hal["temp"]) :
        /\ hcall' = [HalCall("mercury_status", "", "temp",
                              [sent |-> Len(MercuryStatus(cls, devs).reads),
                               exc |-> "", cause |-> "ok"], NoRet, 0, {}) EXCEPT
                        !.snap = MercuryStatus(cls, devs)]
        /\ hlast' = [hlast EXCEPT !["temp"] = FALSE]
        /\ UNCHANGED <<hal, nonhal>>

\* The HAL objects as a ConnectionEngine may have left them: connected with
\* every socket open, or not connected; the engine's flag agrees.
InitHal ==
    /\ NoExperiment
    /\ EnginesIdle
    /\ peer = NoPeer
    /\ acq = NoAcquisition
    /\ NoSweepConfig
    /\ NoCommand
    /\ ControllerIdle
    /\ NoAxis
    /\ hal \in { h \in [Names -> SUBSET {"_udp_tx", "_udp_rx", "sock"}] :
                   \A n \in Names : h[n] \in {{}, AllSockets(Kind(n))} }
    /\ connected = [n \in Names |-> hal[n] # {}]

NextHal ==
    \/ hal_set
    \/ hal_acquire_trace
    \/ mercury_accessor
    \/ hal_status
    \/ capture_estimate_timeout_s
    \/ capture_begin_averaging
    \/ capture_end_averaging
    \/ capture_is_averaging_done
    \/ mercury_status

SpecHal == InitHal /\ [][NextHal]_allvars

\* ------------------------------------------------------------ AppController

\* _experiment_running(): the status is RUNNING or PAUSED.
_experiment_running == experiment_status \in {"RUNNING", "PAUSED"}

\* Everything outside the controller's experiment state.
nonctl == <<vars, evars, gvars, rvars, tvars, svars, hvars, mvars, fvars>>

\* HDF5RunWriter.close(status) on the writer of run w: the status is recorded
\* only while the run is open.
CloseWriter(ws, w, st) ==
    IF w # 0 /\ ws[w] = "open" THEN [ws EXCEPT ![w] = st] ELSE ws

\* run_experiment(config) with operator, sample and axis given: refused while
\* a run is active; otherwise _build_experiment creates sweep, worker and
\* writer, _start_worker_thread connects the slots and starts the thread, and
\* the status becomes RUNNING; an exception on the way (built FALSE) sets
\* IDLE, runs _cleanup_experiment and returns False.
run_experiment ==
    \E ok \in BOOLEAN :
        /\ kcall' = [op |-> "run_experiment", was |-> experiment_status,
                     result |-> IF _experiment_running \/ ~ok THEN "False" ELSE "True"]
        /\ IF _experiment_running
           THEN UNCHANGED <<experiment_status, _worker, _writer, workers, writers, events>>
           ELSE IF ok
           THEN /\ Len(workers) < MaxRuns
                /\ workers' = Append(workers, [at |-> "created", _abort |-> FALSE])
                /\ writers' = Append(writers, "open")
                /\ _worker' = Len(workers) + 1
                /\ _writer' = Len(workers) + 1
                /\ experiment_status' = "RUNNING"
                /\ UNCHANGED events
           ELSE /\ writers' = CloseWriter(writers, _writer, "aborted")
                /\ _worker' = 0
                /\ _writer' = 0
                /\ experiment_status' = "IDLE"
                /\ UNCHANGED <<workers, events>>
        /\ UNCHANGED nonctl

\* Variant: the call is forwarded whatever the status.
_forward_worker_call_unguarded(method) ==
    /\ _worker # 0
    /\ workers' = IF method = "abort" THEN [workers EXCEPT ![_worker]._abort = TRUE]
                  ELSE workers
    /\ kcall' = [op |-> method, was |-> experiment_status, result |-> "True"]

\* _forward_worker_call(method): False unless a run is active; otherwise the
\* method is called on self._worker (AttributeError when that is None).
_forward_worker_call(method) ==
    IF ~_experiment_running
    THEN /\ kcall' = [op |-> method, was |-> experiment_status, result |-> "False"]
         /\ UNCHANGED workers
    ELSE IF _worker = 0
    THEN /\ kcall' = [op |-> method, was |-> experiment_status, result |-> "AttributeError"]
         /\ UNCHANGED workers
    ELSE /\ workers' = IF method = "abort" THEN [workers EXCEPT ![_worker]._abort = TRUE]
                       ELSE workers
         /\ kcall' = [op |-> method, was |-> experiment_status, result |-> "True"]

abort_experiment ==
    /\ _forward_worker_call("abort")
    /\ UNCHANGED <<nonctl, experiment_status, _worker, _writer, writers, events>>

pause_experiment ==
    /\ _forward_worker_call("pause")
    /\ experiment_status' = IF kcall'.result = "True" THEN "PAUSED" ELSE experiment_status
    /\ UNCHANGED <<nonctl, _worker, _writer, writers, events>>

resume_experiment ==
    /\ _forward_worker_call("resume")
    /\ experiment_status' = IF kcall'.result = "True" THEN "RUNNING" ELSE experiment_status
    /\ UNCHANGED <<nonctl, _worker, _writer, writers, events>>

\* The worker of run r as the controller sees it: run() emits started, then
\* aborted if it left through an abort, then finished from its finally block.
worker_run ==
    \E r \in DOMAIN workers :
        /\ workers[r].at = "created"
        /\ workers' = [workers EXCEPT ![r].at = "running"]
        /\ events' = Append(events, [sig |-> "started", run |-> r])
        /\ UNCHANGED <<nonctl, experiment_status, _worker, _writer, writers, kcall>>

worker_aborted ==
    \E r \in DOMAIN workers :
        /\ workers[r].at = "running"
        /\ workers[r]._abort
        /\ workers' = [workers EXCEPT ![r].at = "aborted"]
        /\ events' = Append(events, [sig |-> "aborted", run |-> r])
        /\ UNCHANGED <<nonctl, experiment_status, _worker, _writer, writers, kcall>>

worker_finally ==
    \E r \in DOMAIN workers :
        /\ workers[r].at \in {"running", "aborted"}
        /\ workers' = [workers EXCEPT ![r].at = "finished"]
        /\ events' = Append(events, [sig |-> "finished", run |-> r])
        /\ UNCHANGED <<nonctl, experiment_status, _worker, _writer, writers, kcall>>

\* The slots connected in _start_worker_thread, run one at a time by the
\* controlling thread.  The lambdas read self._writer when they run; finished
\* also quits the run's thread, whose finished signal queues
\* _cleanup_experiment.
slot_started ==
    /\ events # <<>>
    /\ Head(events).sig = "started"
    /\ experiment_status' = "RUNNING"
    /\ events' = Tail(events)
    /\ UNCHANGED <<nonctl, _worker, _writer, workers, writers, kcall>>

slot_aborted ==
    /\ events # <<>>
    /\ Head(events).sig = "aborted"
    /\ experiment_status' = "IDLE"
    /\ writers' = CloseWriter(writers, _writer, "aborted")
    /\ events' = Tail(events)
    /\ UNCHANGED <<nonctl, _worker, _writer, workers, kcall>>

slot_finished ==
    /\ events # <<>>
    /\ Head(events).sig = "finished"
    /\ experiment_status' = "IDLE"
    /\ writers' = CloseWriter(writers, _writer, "completed")
    /\ events' = Append(Tail(events), [sig |-> "thread_finished", run |-> Head(events).run])
    /\ UNCHANGED <<nonctl, _worker, _writer, workers, kcall>>

slot_thread_finished ==
    /\ events # <<>>
    /\ Head(events).sig = "thread_finished"
    /\ writers' = CloseWriter(writers, _writer, "aborted")
    /\ _worker' = 0
    /\ _writer' = 0
    /\ experiment_status' = "IDLE"
    /\ events' = Tail(events)
    /\ UNCHANGED <<nonctl, workers, kcall>>

InitController ==
    /\ NoExperiment
    /\ InstrumentsAtRest
    /\ peer = NoPeer
    /\ acq = NoAcquisition
    /\ NoSweepConfig
    /\ NoCommand
    /\ ControllerIdle
    /\ NoAxis

NextController ==
    \/ run_experiment
    \/ abort_experiment
    \/ pause_experiment
    \/ resume_experiment
    \/ worker_run
    \/ worker_aborted
    \/ worker_finally
    \/ slot_started
    \/ slot_aborted
    \/ slot_finished
    \/ slot_thread_finished

SpecController == InitController /\ [][NextController]_allvars

\* ------------------------------------------------- Mercury request / reply

\* Everything outside the Mercury client's socket and buffer.
nonmercury == <<vars, evars, gvars, rvars, tvars, svars, hvars, kvars, fvars>>

\* The receive side of _send_command once the command is out, w being what
\* the instrument has in flight: with a whole line already in _rx_buffer no
\* recv is made; otherwise recv returns a chunk of the first j lines in
\* flight, or times out (socket.timeout), or returns b"" (RuntimeError).  The
\* first line of the buffer is returned and the rest stays in the buffer.
MercuryReceive(buf, w, how, j) ==
    IF buf # <<>>
    THEN [exc |-> "", returned |-> Head(buf), buf |-> Tail(buf), wire |-> w]
    ELSE IF how = "chunk" /\ j \in 1..Len(w)
    THEN [exc |-> "", returned |-> w[1], buf |-> SubSeq(w, 2, j),
          wire |-> SubSeq(w, j + 1, Len(w))]
    ELSE IF how = "closed"
    THEN [exc |-> "RuntimeError:closed", returned |-> NoTag, buf |-> <<>>, wire |-> <<>>]
    ELSE [exc |-> "timeout", returned |-> NoTag, buf |-> <<>>, wire |-> w]

Receives == {"chunk", "timeout", "closed"}

\* The instrument answers a command with one line, at once or late, or not at
\* all.
Answered(w, c, s, answers) == IF answers THEN Append(w, [cmd |-> c, conn |-> s]) ELSE w

\* _send_command(cmd): RuntimeError when sock is None; otherwise sendall, then
\* the receive loop; no exception touches sock or _rx_buffer.
mercury_send_command ==
    /\ issued < MaxCommands
    /\ \/ /\ sock = 0
          /\ mcall' = [op |-> "_send_command", cmd |-> 0, conn |-> 0,
                       exc |-> "RuntimeError:not_connected", returned |-> NoTag]
          /\ UNCHANGED <<_rx_buffer, wire, issued>>
       \/ /\ sock # 0
          /\ \E answers \in BOOLEAN, how \in Receives, j \in 1..MaxCommands :
                LET r == MercuryReceive(_rx_buffer,
                                        Answered(wire, issued + 1, sock, answers), how, j)
                IN  /\ issued' = issued + 1
                    /\ _rx_buffer' = r.buf
                    /\ wire' = r.wire
                    /\ mcall' = [op |-> "_send_command", cmd |-> issued + 1, conn |-> sock,
                                 exc |-> r.exc, returned |-> r.returned]
    /\ UNCHANGED <<sock, conns, nonmercury>>

\* connect(address): RuntimeError when sock is not None; otherwise a new
\* socket, connect() and get_devices(), whose first command is READ:SYS:CAT
\* (an instrument without devices: no NICK reads follow); any exception closes
\* the socket and sets sock to None.  _rx_buffer is not reset.
mercury_connect ==
    /\ conns < MaxConns
    /\ issued < MaxCommands
    /\ \/ /\ sock # 0
          /\ mcall' = [op |-> "connect", cmd |-> 0, conn |-> sock,
                       exc |-> "RuntimeError:already_connected", returned |-> NoTag]
          /\ UNCHANGED <<sock, _rx_buffer, wire, issued, conns>>
       \/ /\ sock = 0
          /\ conns' = conns + 1
          /\ \/ /\ sock' = 0
                /\ mcall' = [op |-> "connect", cmd |-> 0, conn |-> conns + 1,
                             exc |-> "OSError:connect", returned |-> NoTag]
                /\ UNCHANGED <<_rx_buffer, wire, issued>>
             \/ \E answers \in BOOLEAN, how \in Receives, j \in 1..MaxCommands :
                  LET r == MercuryReceive(_rx_buffer,
                                          Answered(<<>>, issued + 1, conns + 1, answers),
                                          how, j)
                  IN  /\ issued' = issued + 1
                      /\ _rx_buffer' = r.buf
                      /\ wire' = IF r.exc = "" THEN r.wire ELSE <<>>
                      /\ sock' = IF r.exc = "" THEN conns + 1 ELSE 0
                      /\ mcall' = [op |-> "connect", cmd |-> issued + 1, conn |-> conns + 1,
                                   exc |-> r.exc, returned |-> r.returned]
    /\ UNCHANGED nonmercury

\* disconnect(): close the socket, sock = None, devices = {}; _rx_buffer is
\* not reset.  What was in flight on the closed connection is gone.
mercury_disconnect ==
    /\ sock # 0
    /\ sock' = 0
    /\ wire' = <<>>
    /\ mcall' = [op |-> "disconnect", cmd |-> 0, conn |-> sock, exc |-> "",
                 returned |-> NoTag]
    /\ UNCHANGED <<_rx_buffer, issued, conns, nonmercury>>

InitMercury == NoExperiment /\ InitInstruments

NextMercury ==
    \/ mercury_send_command
    \/ mercury_connect
    \/ mercury_disconnect

SpecMercury == InitMercury /\ [][NextMercury]_allvars

\* ------------------------------------------- a started run, to its end

\* The steps of the execution thread inside ExperimentWorker.run().
WorkerStep ==
    \/ run_begin
    \/ run_for
    \/ _check_abort
    \/ _wait_if_paused
    \/ pause_msleep
    \/ goto
    \/ settle
    \/ settle_msleep
    \/ dwell
    \/ _controlled_sleep
    \/ dwell_msleep
    \/ begin_averaging
    \/ _wait_for_averaging
    \/ averaging_msleep
    \/ _capture_data
    \/ _safe_dump
    \/ end_averaging
    \/ run_finally

\* The slots of handle_signal together with what they do to the experiment
\* status: the aborted and finished lambdas and _cleanup_experiment call
\* _set_status(IDLE); the data_ready slot leaves the status alone.
controller_slot ==
    /\ queue # <<>>
    /\ \/ /\ Head(queue).ev = "data_ready"
          /\ writer' = WriterWrite(writer, Head(queue).i)
          /\ queue' = Tail(queue)
          /\ UNCHANGED experiment_status
       \/ /\ Head(queue).ev = "aborted"
          /\ writer' = WriterClose(writer, "aborted")
          /\ queue' = Tail(queue)
          /\ experiment_status' = "IDLE"
       \/ /\ Head(queue).ev = "finished"
          /\ writer' = WriterClose(writer, "completed")
          /\ queue' = Append(Tail(queue), Ev("thread_finished", 0, ""))
          /\ experiment_status' = "IDLE"
       \/ /\ Head(queue).ev = "thread_finished"
          /\ writer' = _cleanup_experiment(writer)
          /\ queue' = Tail(queue)
          /\ experiment_status' = "IDLE"
    /\ UNCHANGED <<evars, gvars, rvars, tvars, svars, hvars, mvars, fvars, _worker, _writer,
                   workers, writers, events, kcall, sweep, pc, i, _abort, _paused, runner,
                   remaining, elapsed, log, hist>>

\* The state run_experiment leaves when it returns True: the worker built and
\* its thread started, the status RUNNING.
InitLive ==
    /\ sweep \in Sweeps
    /\ pc = "run"
    /\ i = 0
    /\ _abort = FALSE
    /\ _paused = FALSE
    /\ runner \in [_abort : {FALSE}, safe_dump_dir : BOOLEAN]
    /\ remaining = 0
    /\ elapsed = 0
    /\ log = <<>>
    /\ queue = <<>>
    /\ writer = [open |-> TRUE, status |-> "running", data |-> <<>>, closes |-> 0,
                 error |-> FALSE, attached |-> TRUE]
    /\ hist = [abort_in |-> "", abort_i |-> 0, sleeps |-> 0, raised |-> "", raised_i |-> 0]
    /\ InstrumentsAtRest
    /\ peer = NoPeer
    /\ acq = NoAcquisition
    /\ NoSweepConfig
    /\ NoCommand
    /\ NoAxis
    /\ experiment_status = "RUNNING"
    /\ _worker = 0
    /\ _writer = 0
    /\ workers = <<>>
    /\ writers = <<>>
    /\ events = <<>>
    /\ kcall = NoControllerCall

NextLive ==
    \/ abort
    \/ pause
    \/ resume
    \/ WorkerStep
    \/ controller_slot

\* The execution thread keeps running and every instrument call returns
\* (weak fairness of the worker's steps); the controlling thread's event loop
\* runs every queued slot (weak fairness of the slots).  abort, pause and
\* resume are the user's and happen or not.
SpecLive ==
    InitLive /\ [][NextLive]_allvars /\ WF_allvars(WorkerStep) /\ WF_allvars(controller_slot)

\* ------------------------------------------------ settling of a field axis

\* Time is in tenths of a second here: TIMEOUT_S is 500.0 s, the two
\* overheads 15.0 s and 1.0 s, the least estimate 2.0 s; QuantumDs is the
\* time one msleep of the settle loop takes.

\* Everything outside one positioning.
nonsettle ==
    <<evars, gvars, rvars, tvars, svars, hvars, kvars, mvars, sweep, i, _paused, runner,
      remaining, log, queue, writer>>

\* Variant: the estimate without its upper clamp.
estimate_settle_time_s_noclamp(a) ==
    LET delta_field == Abs(a.value - a.current)
        ramp_s == (delta_field * 600) \div a.rate
        estimated_s == (13 * (ramp_s + POST_RAMP_STABILIZATION_S + BASE_OVERHEAD_S)) \div 10
    IN  Max(estimated_s, MinimumEstimate)

\* FieldAxis.estimate_settle_time_s(value): ramp time of |value - current| at
\* the rate read back (T/min), plus 15 s and 1 s, times 1.3, at least 2 s and
\* at most TIMEOUT_S.
estimate_settle_time_s(a) ==
    LET delta_field == Abs(a.value - a.current)
        ramp_s == (delta_field * 600) \div a.rate
        estimated_s == (13 * (ramp_s + POST_RAMP_STABILIZATION_S + BASE_OVERHEAD_S)) \div 10
    IN  Min(Max(estimated_s, MinimumEstimate), TIMEOUT_S)

\* Targets and fields within FieldAxis.minimum .. maximum (mT), positive ramp
\* rates (mT/min).
FieldArgs == [value : {-7000, 0, 7000}, current : {-7000, 0, 6990}, rate : {1, 600, 100000}]

\* _position_axis: axis.goto(value); timeout_s = axis.estimate_settle_time_s(value);
\* t0 = time.monotonic()
position_goto ==
    /\ pc = "goto"
    /\ timeout_s' = estimate_settle_time_s(axis)
    /\ elapsed' = 0
    /\ pc' = "settle"
    /\ UNCHANGED <<nonsettle, axis, is_ready, _abort, hist>>

\* while not axis.is_ready(): if self._abort: return False; elapsed_s > timeout_s
\* raises TimeoutError; otherwise step_progress and the msleep
position_settle ==
    /\ pc = "settle"
    /\ \E ready \in BOOLEAN :
        /\ is_ready' = ready
        /\ IF ready THEN pc' = "dwell" /\ UNCHANGED hist
           ELSE IF _abort THEN pc' = "aborted" /\ UNCHANGED hist
           ELSE IF elapsed > timeout_s
           THEN pc' = "finally" /\ hist' = Raised(hist, "TimeoutError:settle")
           ELSE pc' = "settle_msleep" /\ UNCHANGED hist
    /\ UNCHANGED <<nonsettle, axis, timeout_s, elapsed, _abort>>

\* QtCore.QThread.msleep(self._SLEEP_QUANTUM_MS)
position_msleep ==
    /\ pc = "settle_msleep"
    /\ elapsed' = elapsed + QuantumDs
    /\ pc' = "settle"
    /\ UNCHANGED <<nonsettle, fvars, _abort, hist>>

\* ExperimentWorker.abort() while the axis is being positioned
position_abort ==
    /\ pc \in {"goto", "settle", "settle_msleep"}
    /\ ~_abort
    /\ _abort' = TRUE
    /\ UNCHANGED <<nonsettle, fvars, pc, elapsed, hist>>

\* The worker at _position_axis of the first point of a sweep over the field
\* axis, which is blocking.
InitSettle ==
    /\ sweep = [start |-> 1, stop |-> 1, step |-> 1, dwell_q |-> 0, blocking |-> TRUE]
    /\ pc = "goto"
    /\ i = 1
    /\ _abort = FALSE
    /\ _paused = FALSE
    /\ runner = [_abort |-> FALSE, safe_dump_dir |-> FALSE]
    /\ remaining = 0
    /\ elapsed = 0
    /\ log = <<>>
    /\ queue = <<>>
    /\ writer = [open |-> TRUE, status |-> "running", data |-> <<>>, closes |-> 0,
                 error |-> FALSE, attached |-> TRUE]
    /\ hist = [abort_in |-> "", abort_i |-> 0, sleeps |-> 0, raised |-> "", raised_i |-> 0]
    /\ InstrumentsAtRest
    /\ peer = NoPeer
    /\ acq = NoAcquisition
    /\ NoSweepConfig
    /\ NoCommand
    /\ ControllerIdle
    /\ axis \in FieldArgs
    /\ timeout_s = -1
    /\ is_ready = FALSE

NextSettle ==
    \/ position_goto
    \/ position_settle
    \/ position_msleep
    \/ position_abort

SpecSettle == InitSettle /\ [][NextSettle]_allvars

\* ---------------------------------------------------------- log vocabulary

Positions(name) == { k \in DOMAIN log : log[k].ev = name }

Count(name) == Cardinality(Positions(name))

Terminal == {"finished", "aborted"}

StepNotifications ==
    {"step_progress", "run_progress", "step_started", "data_ready", "step_finished"}

\* The calls that start work on a sweep point.
PointCalls == {"goto", "begin_averaging", "capture"}

RECURSIVE DataReadyIn(_)
\* The DataAtom indices of the data_ready notifications of a log, in order.
DataReadyIn(es) ==
    IF es = <<>> THEN <<>>
    ELSE IF Head(es).ev = "data_ready" THEN <<Head(es).i>> \o DataReadyIn(Tail(es))
         ELSE DataReadyIn(Tail(es))

DataReady == DataReadyIn(log)

IsPrefix(a, b) == Len(a) <= Len(b) /\ \A k \in 1..Len(a) : a[k] = b[k]

Timeouts == {"TimeoutError:settle", "TimeoutError:averaging"}

Unexpected == {"goto", "begin_averaging", "is_averaging_done", "capture", "dump_save"}

\* ------------------------------------------------------------------ claims

\* C1: whatever the exit path of run(), exactly one terminal notification is
\* emitted in total, counting `aborted` and `finished` together.
C1_OneTerminalNotification ==
    pc = "done" => Count("aborted") + Count("finished") = 1

\* C2: axis.shutdown() is called exactly once per execution of run(), on every
\* exit path: never before the run ends, never twice.
C2_ShutdownExactlyOnce ==
    /\ pc = "done" => Count("shutdown") = 1
    /\ pc # "done" => Count("shutdown") = 0

C2_Witness ==
    /\ pc = "done"
    /\ Count("aborted") = 1
    /\ Count("shutdown") = 1

\* C3: the terminal notification is the last notification of a run: after
\* `finished` or `aborted` no step_progress, run_progress, step_started,
\* data_ready or step_finished notification is emitted.
C3_TerminalIsLast ==
    \A k \in DOMAIN log :
        log[k].ev \in Terminal =>
            \A m \in DOMAIN log : m > k => log[m].ev \notin StepNotifications

\* C4: a Count sweep start=1, stop=n, step=1, dwell=0 with no abort, a
\* non-blocking axis and averaging that completes emits data_ready for the
\* indices 1..n in that order, then exactly one `finished`, and no `aborted`
\* (with no pause, and also when pause / resume were called in between).
C4_Undisturbed ==
    /\ sweep.start = 1
    /\ sweep.step = 1
    /\ sweep.dwell_q = 0
    /\ ~sweep.blocking
    /\ ~_abort
    /\ hist.raised = ""

C4_CountSweepEndToEnd ==
    (pc = "done" /\ C4_Undisturbed) =>
        /\ DataReady = [k \in 1..sweep.stop |-> k]
        /\ Count("finished") = 1
        /\ Count("aborted") = 0
        /\ \A f \in Positions("finished") : \A d \in Positions("data_ready") : d < f

C4_Witness ==
    /\ pc = "done"
    /\ C4_Undisturbed
    /\ ~_paused
    /\ sweep.stop = MaxStop
    /\ Len(DataReady) = MaxStop

\* C5: data_ready notifications are emitted in strictly increasing step-index
\* order, at most one per point, and the data_ready of step j-1 precedes the
\* axis goto of step j, under every interleaving of pause / resume / abort.
C5_DataReadyInStepOrder ==
    /\ LET dr == DataReady
       IN  \A k \in 1..Len(dr) : \A m \in 1..Len(dr) : k < m => dr[k] < dr[m]
    /\ \A g \in Positions("goto") :
           log[g].i > 1 =>
               \E d \in Positions("data_ready") : d < g /\ log[d].i = log[g].i - 1

C5_Witness ==
    /\ _paused
    /\ Len(DataReady) >= 2
    /\ \E g \in Positions("goto") : log[g].i = 2

\* C6: abort raised while the worker is inside the dwell wait of a step: at
\* most one more quantum is slept, and neither averaging nor capture is
\* started for that step.
C6_AbortInDwell == hist.abort_in = "dwell"

C6_AbortMidDwellStopsStep ==
    C6_AbortInDwell =>
        /\ hist.sleeps <= 1
        /\ \A k \in DOMAIN log :
               log[k].ev \in {"begin_averaging", "capture"} => log[k].i # hist.abort_i

\* C7: abort is permanent: once raised the flag stays set under any later
\* pause / resume / abort, and no goto is issued for a point whose per-point
\* abort check comes after the flag was raised.
C7_FirstCheckAfterAbort ==
    IF hist.abort_in = "check" THEN hist.abort_i ELSE hist.abort_i + 1

C7_NoGotoPastAbort ==
    _abort =>
        \A g \in Positions("goto") : log[g].i < C7_FirstCheckAfterAbort

C7_AbortIsPermanent ==
    /\ [][_abort => _abort']_vars
    /\ []C7_NoGotoPastAbort

C7_Witness ==
    /\ pc = "done"
    /\ _abort
    /\ hist.abort_in = "resumed"
    /\ hist.abort_i < npoints(sweep)
    /\ Positions("goto") # {}

\* C8: abort raised while the worker is paused, resume never called: the
\* worker leaves the pause loop within one quantum, emits `aborted`, runs
\* axis.shutdown(), issues no goto, averaging or capture for the pending
\* point, and run() returns.
C8_AbortWhilePaused == hist.abort_in = "pause"

C8_AbortWhilePausedStopsCleanly ==
    C8_AbortWhilePaused =>
        /\ hist.sleeps <= 1
        /\ pc \in {"_wait_if_paused", "pause_msleep", "finally", "done"}
        /\ pc \in {"finally", "done"} => Count("aborted") = 1
        /\ pc = "done" => Count("shutdown") = 1
        /\ \A k \in DOMAIN log : log[k].ev \in PointCalls => log[k].i # hist.abort_i
        /\ pc # "done" => ENABLED (_wait_if_paused \/ pause_msleep \/ run_finally)

C8_Witness ==
    /\ C8_AbortWhilePaused
    /\ pc = "done"
    /\ hist.sleeps = 1
    /\ hist.abort_i = 2

\* C9: a settle or averaging timeout ends the run without retry and the run
\* is finalized through the abort path: an `aborted` notification is emitted.
C9_TimeoutFinalizesAsAborted ==
    (pc = "done" /\ hist.raised \in Timeouts) =>
        /\ Count("aborted") = 1
        /\ \A k \in DOMAIN log : log[k].ev \in PointCalls => log[k].i <= hist.raised_i

\* C10: after an unexpected exception in goto, averaging, capture or safe
\* dump no goto, averaging or capture is issued for a later point, the
\* finalization still runs (axis.shutdown() and the terminal notification),
\* and the data_ready already emitted are delivered to the writer.
C10_ExceptionEndsSweepKeepsData ==
    hist.raised \in Unexpected =>
        /\ pc \in {"finally", "done"}
        /\ \A k \in DOMAIN log : log[k].ev \in PointCalls => log[k].i <= hist.raised_i
        /\ pc = "done" => Count("shutdown") = 1 /\ Count("finished") = 1
        /\ LET dr == DataReady
           IN  /\ IsPrefix(writer.data, dr)
               /\ (pc = "done" /\ queue = <<>>) => writer.data = dr
        /\ ~writer.error

C10_Witness ==
    /\ hist.raised = "capture"
    /\ hist.raised_i = 2
    /\ pc = "done"
    /\ queue = <<>>
    /\ writer.data = <<1>>

\* ---------------------------------------------------------------------- C11
\* C11: a run is finalized exactly once: the file of its writer is closed at
\* most one time although close() is called by the `aborted` slot, the
\* `finished` slot and _cleanup_experiment; a closed writer carries a terminal
\* status, and once the controller has cleaned up the writer was closed
\* exactly once.
C11_FinalizedExactlyOnce ==
    /\ writer.closes <= 1
    /\ (writer.closes = 1) <=> ~writer.open
    /\ ~writer.open => writer.status \in {"completed", "aborted"}
    /\ writer.open => writer.status = "running"
    /\ ~writer.attached => writer.closes = 1

\* an aborted run after cleanup: close() was called three times
C11_Witness ==
    /\ ~writer.attached
    /\ Count("aborted") = 1
    /\ Count("finished") = 1
    /\ writer.closes = 1

\* ---------------------------------------------------------------------- C12
\* C12: the status recorded on a closed writer matches the completion path:
\* `completed` only when every sweep point was written, `aborted` when the
\* run announced an abort, `failed` when a timeout or an exception ended it.
C12_StatusMatchesCompletionPath ==
    ~writer.open =>
        /\ writer.status = "completed" => Len(writer.data) = npoints(sweep)
        /\ Count("aborted") = 1 => writer.status = "aborted"
        /\ hist.raised # "" => writer.status = "failed"

\* ---------------------------------------------------------------------- C14
\* C14: ConnectionEngine.disconnect(name) on a registered instrument whose
\* connected flag is not set never raises, does not call the HAL's
\* disconnect and leaves the flag false, however often it is repeated.
C14_DisconnectWhenDisconnected ==
    (call.op = "disconnect" /\ ~call.was) =>
        /\ ~call.raised
        /\ ~call.hal_called
        /\ ~connected[call.name]

\* the second of two disconnects in a row on an instrument never connected
C14_Witness ==
    /\ call.op = "disconnect"
    /\ call.again
    /\ ~call.was
    /\ attempts[call.name].last = "none"

\* ---------------------------------------------------------------------- C15
\* C15: when the HAL's disconnect() raises during ConnectionEngine.disconnect
\* on a connected instrument, the engine's connected flag is false afterwards.
C15_FlagClearedWhenDisconnectRaises ==
    (call.op = "disconnect" /\ call.was /\ call.raised) => ~connected[call.name]

C15_Witness ==
    /\ call.op = "disconnect"
    /\ call.was
    /\ call.raised
    /\ ~connected[call.name]

\* ---------------------------------------------------------------------- C16
\* C16: last_error[name] is the exception of the latest connect attempt for
\* that name when it failed and None when it succeeded or none was made;
\* disconnect does not change it.
C16_LastErrorIsLatestAttempt ==
    \A n \in Names :
        last_error[n] = IF attempts[n].last \in {"none", "ok"}
                        THEN "None"
                        ELSE attempts[n].last

\* a failed attempt, then a successful one, then a disconnect
C16_Witness ==
    \E n \in Names :
        /\ attempts[n].prev \notin {"none", "ok"}
        /\ attempts[n].last = "ok"
        /\ last_error[n] = "None"
        /\ call.op = "disconnect"
        /\ call.name = n

\* ---------------------------------------------------------------------- C17
\* the failures of a connect the claim lists
C17_ConnectFailures ==
    {"unreachable", "probe_mismatch", "probe_timeout", "enumeration", "already_connected"}

\* C17: after a connect that failed (unreachable host, probe mismatch, probe
\* timeout, enumeration failure, instrument already connected) the instrument
\* is left disconnected: the HAL holds no socket, is_connected() is false and
\* the engine's flag is false.
C17_FailedConnectLeavesDisconnected ==
    (call.op = "connect" /\ call.exc \in C17_ConnectFailures) =>
        /\ hal[call.name] = {}
        /\ ~is_connected(Kind(call.name), hal[call.name])
        /\ ~connected[call.name]

\* ---------------------------------------------------------------------- C13
\* C13: of two overlapping InstrumentController.connect calls for one name
\* only one gets past the guard: never have two calls that have not returned
\* yet both made the underlying connect attempt for the same name.
C13_OneAttemptPerName ==
    \A t1, t2 \in Threads :
        (/\ t1 # t2
         /\ thread[t1].pc = "finally"
         /\ thread[t2].pc = "finally")
        => thread[t1].name # thread[t2].name

\* ---------------------------------------------------------------------- C18
\* C18: register raises exactly when the name is already registered and then
\* leaves the stored object alone; get raises for a name never registered and
\* otherwise returns the stored object; every registered name maps to the
\* first object registered under it.
C18_FirstRegistrationWins ==
    /\ \A n \in Names :
        /\ (n \in names) <=> first[n] # 0
        /\ n \in names => Lookup(n).id = first[n]
    /\ \A j, k \in DOMAIN _instruments :
        _instruments[j].name = _instruments[k].name => j = k
    /\ rcall.op = "register" =>
        (rcall.raised = "ValueError" <=> first[rcall.name] # rcall.id)
    /\ rcall.op = "get" =>
        /\ rcall.raised = "KeyError" <=> first[rcall.name] = 0
        /\ rcall.id = first[rcall.name]

\* a register refused for a taken name, the first object still stored
C18_Witness ==
    /\ rcall.op = "register"
    /\ rcall.raised = "ValueError"
    /\ rcall.name \in names
    /\ Lookup(rcall.name).id = first[rcall.name]
    /\ Lookup(rcall.name).id # rcall.id

\* ---------------------------------------------------------------------- C19
\* C19: disconnect_all attempts the disconnect of every registered instrument
\* and raises nothing, also when the disconnect of one of them raises.
C19_DisconnectAllBestEffort ==
    rcall.op = "disconnect_all" =>
        /\ rcall.attempted = names
        /\ rcall.raised = ""

\* ---------------------------------------------------------------------- C20
\* C20: acquire_trace returns a trace only when all 6 header bytes and all
\* declared payload bytes were received; when the far end closes before that
\* the call raises; a declared length of 0, below 0 or above the limit is
\* rejected before any payload byte is read; a created per-acquisition socket
\* is closed by the time the call ends.
C20_NoPartialTrace ==
    /\ acq.result = "trace" =>
        /\ acq.hdr = HeaderBytes
        /\ acq.data = peer.declared
        /\ peer.declared \in 1..MaxTraceLength
        /\ acq.exc = ""
    /\ acq.pc = "done" =>
        /\ acq.result \in {"trace", "raised"}
        /\ acq.sock # "open"
        /\ (acq.hdr < HeaderBytes \/ acq.data < peer.declared) => acq.result = "raised"
        /\ (/\ acq.hdr = HeaderBytes
            /\ peer.numeric
            /\ (peer.declared <= 0 \/ peer.declared > MaxTraceLength))
           => /\ acq.exc = "ValueError"
              /\ ~acq.payload_read
              /\ acq.data = 0
    /\ acq.payload_read => peer.numeric /\ peer.declared \in 1..MaxTraceLength

\* the far end declared L bytes and closed after fewer: the call raised and
\* the socket is closed
C20_Witness ==
    /\ acq.pc = "done"
    /\ acq.hdr = HeaderBytes
    /\ peer.then = "close"
    /\ acq.data < peer.declared
    /\ acq.data > 0
    /\ acq.exc = "RuntimeError"
    /\ acq.result = "raised"
    /\ acq.sock = "closed"

\* ---------------------------------------------------------------------- C30
\* C30: once the run has ended, every begin_averaging call of a step is
\* followed by an end_averaging call of that step, whatever ended the step.
C30_AveragingAlwaysEnded ==
    pc = "done" =>
        \A k \in Positions("begin_averaging") :
            \E j \in Positions("end_averaging") : j > k /\ log[j].i = log[k].i

\* ---------------------------------------------------------------------- C25
\* Whether v has not passed the stop bound widened by eps, in the direction of
\* the step of c.
NotPastStop(c, v) ==
    IF c.step > 0
    THEN v * EpsDiv <= c.stop * EpsDiv + Abs(c.step)
    ELSE v * EpsDiv >= c.stop * EpsDiv - Abs(c.step)

\* Whether v lies between start and the stop bound widened by eps.
BetweenStartAndStop(c, v) ==
    /\ NotPastStop(c, v)
    /\ IF c.step > 0 THEN v >= c.start ELSE v <= c.start

C26_BadStepRaises ==
    /\ built # ""
    /\ \/ cfg.step = 0
       \/ (cfg.stop - cfg.start) * cfg.step < 0
       \/ cfg.start = cfg.stop /\ cfg.step < 0
    => built \in {"ValueError:zero", "ValueError:sign"}

C21_ProtocolErrorFailsOnlyItsCall ==
    /\ hcall.cause = "protocol" =>
        /\ hcall.exc # ""
        /\ hal[hcall.name] = hcall.socks
        /\ is_connected(Kind(hcall.name), hal[hcall.name])
    /\ hcall.op # "" /\ hcall.after =>
        /\ is_connected(Kind(hcall.name), hcall.socks)
        /\ hcall.cause # "not_connected"
        /\ hcall.cause # "programmer" /\ hcall.op # "mercury_status" => hcall.sent >= 1
        /\ hcall.op = "mercury_status" => hcall.sent = Len(hcall.snap.reads)

\* A set command accepted right after a call on the same HAL that ended in a
\* protocol error.
C21_Witness ==
    /\ hcall.op = "set"
    /\ hcall.after
    /\ hcall.sent = 1
    /\ hcall.exc = ""

\* ---------------------------------------------------------------------- C22
\* The status field a read feeds.
FieldOf(c) ==
    IF c = "RD-AVERAGE" THEN "average_points"
    ELSE IF c = "RD-TAC.TIME" THEN "tac_time_s"
    ELSE IF c = "RD-AMPLITUDE" THEN "amplitude_nA"
    ELSE "running"

\* C22: a status() call during which exactly one read failed returned a
\* snapshot in which the field of that read is unavailable (None) and every
\* other field has a value.
C22_StatusSurvivesOneFailedRead ==
    hcall.op = "status" /\ Cardinality(hcall.failed) = 1 =>
        /\ hcall.exc = ""
        /\ \A f \in {"running", "average_points", "tac_time_s", "amplitude_nA"} :
            (hcall.ret[f] = "None") <=> (\E c \in hcall.failed : FieldOf(c) = f)
        /\ \A f \in {"running", "average_points", "tac_time_s", "amplitude_nA"} :
            hcall.ret[f] # ""

\* ---------------------------------------------------------------------- C23
\* C23: a typed Mercury accessor called on a catalogued device of another kind
\* than the one it expects raised the kind mismatch with no command sent and
\* no value returned.
C23_KindMismatchRaisesBeforeSend ==
    hcall.op \in {"read", "set"} /\ hcall.arg = "mismatch" =>
        /\ hcall.exc = "RuntimeError:kind_mismatch"
        /\ hcall.sent = 0
        /\ hcall.ret.value = ""

C23_Witness ==
    /\ hcall.op = "read"
    /\ hcall.arg = "mismatch"
    /\ hcall.name = "temp"
    /\ is_connected(Kind("temp"), hcall.socks)
    /\ hcall.exc = "RuntimeError:kind_mismatch"

\* ---------------------------------------------------------------------- C24
\* C24: estimate_timeout_s() never raises; it returns the configured timeout
\* when the TAC-time read raised or returned an unconverted reply, and
\* max(configured timeout, 2 * TAC + 3) when the read returned a number.
C24_EstimateTimeoutNeverRaises ==
    hcall.op = "estimate_timeout_s" =>
        /\ hcall.exc = ""
        /\ hcall.arg = "float" =>
            hcall.num = Max(ThzTimeoutS, 2 * NumOf(hcall.ret.tac_time_s) + 3)
        /\ hcall.arg # "float" => hcall.num = ThzTimeoutS

\* The TAC-time reply did not convert and the configured timeout came back.
C24_Witness ==
    /\ hcall.op = "estimate_timeout_s"
    /\ hcall.arg = "str"
    /\ hcall.sent = 1
    /\ hcall.exc = ""
    /\ hcall.num = ThzTimeoutS

\* ---------------------------------------------------------------------- C29
\* C29: no control-surface call raises to its caller: the latest connect or
\* disconnect made through the engine returned.
C29_NoControlCallRaises ==
    call.op # "" => ~call.raised

\* ---------------------------------------------------------------------- C28
\* The moves of the experiment status the state machine allows.
StatusMoves ==
    {<<"IDLE", "RUNNING">>, <<"RUNNING", "PAUSED">>, <<"PAUSED", "RUNNING">>,
     <<"RUNNING", "IDLE">>, <<"PAUSED", "IDLE">>, <<"RUNNING", "ERROR">>,
     <<"PAUSED", "ERROR">>}

\* A call of one of ops made in this step.
Called(ops) == kcall' # kcall /\ kcall'.op \in ops

\* C28: the experiment status changes only along IDLE -> RUNNING,
\* RUNNING <-> PAUSED and RUNNING/PAUSED -> IDLE or ERROR; run_experiment
\* while the status is RUNNING or PAUSED returns False and creates no worker;
\* pause, resume and abort while the status is IDLE return False and change
\* nothing.
C28_StatusMachine ==
    [][ /\ experiment_status' # experiment_status =>
            <<experiment_status, experiment_status'>> \in StatusMoves
        /\ Called({"run_experiment"}) /\ experiment_status \in {"RUNNING", "PAUSED"} =>
            /\ kcall'.result = "False"
            /\ UNCHANGED <<experiment_status, _worker, _writer, workers, writers, events>>
        /\ Called({"pause", "resume", "abort"}) /\ experiment_status = "IDLE" =>
            /\ kcall'.result = "False"
            /\ UNCHANGED <<experiment_status, _worker, _writer, workers, writers, events>>
      ]_allvars

\* run_experiment was refused while the run was paused.
C28_Witness ==
    /\ kcall.op = "run_experiment"
    /\ kcall.was = "PAUSED"
    /\ kcall.result = "False"
    /\ experiment_status = "PAUSED"
    /\ Len(workers) = 1

\* ---------------------------------------------------------------------- C36
\* C36: for every name the engine's cached connected flag equals the HAL's
\* own is_connected().
C36_FlagMatchesHal ==
    \A n \in Names : connected[n] = is_connected(Kind(n), hal[n])

AfterBegin(l, a) == \E b \in 1..(a - 1) : l[b] = Ev("begin_averaging", l[a].i, "")

\* The place of a logged operation in the order of a step; the two
\* step_progress(1, 1, "") of a step are told apart by begin_averaging: the
\* later one is emitted when the averaging poll has returned true.
Rank(l, a) ==
    LET e == l[a] IN
    IF e.ev = "goto" THEN 1
    ELSE IF e.ev = "step_progress" /\ e.msg = "stabilizing..." THEN 2
    ELSE IF e.ev = "step_progress" /\ e.msg = "waiting..." THEN 3
    ELSE IF e.ev = "step_progress" /\ e.msg = "" /\ ~AfterBegin(l, a) THEN 4
    ELSE IF e.ev = "step_started" THEN 5
    ELSE IF e.ev = "begin_averaging" THEN 6
    ELSE IF e.ev = "step_progress" /\ e.msg = "averaging..." THEN 7
    ELSE IF e.ev = "step_progress" /\ e.msg = "" THEN 8
    ELSE IF e.ev = "capture" THEN 9
    ELSE IF e.ev = "data_ready" THEN 10
    ELSE IF e.ev = "dump_save" THEN 11
    ELSE IF e.ev = "end_averaging" THEN 12
    ELSE IF e.ev = "run_progress" THEN 13
    ELSE IF e.ev = "step_finished" THEN 14
    ELSE 15

\* The entry at position a of the log l is in its place after the entries
\* before it.
InStepOrder(l, a) ==
    l[a].i >= 1 =>
        /\ (a > 1 /\ l[a - 1].i = l[a].i) =>
                \/ Rank(l, a - 1) < Rank(l, a)
                \/ Rank(l, a - 1) = 15 /\ Rank(l, a) = 15
        /\ (a = 1 \/ l[a - 1].i # l[a].i) =>
                /\ l[a].ev \in {"goto", "runner.abort"}
                /\ \A b \in 1..(a - 1) : l[b].i < l[a].i
        /\ Rank(l, a) = 2 => sweep.blocking
        /\ Rank(l, a) = 6 => l[a - 1] = Ev("step_started", l[a].i, "")
        /\ Rank(l, a) = 9 => Rank(l, a - 1) = 8 /\ l[a - 1].i = l[a].i
        /\ Rank(l, a) = 10 => l[a - 1] = Ev("capture", l[a].i, "")
        /\ Rank(l, a) = 14 =>
                /\ l[a - 1] = Ev("run_progress", l[a].i, "")
                /\ \E b \in 1..(a - 1) : l[b] = Ev("data_ready", l[a].i, "")

\* C31: every call and notification the worker adds to its log is in its
\* place: within a step the logged operations follow the order goto, settle
\* progress (blocking axis only), dwell progress, begin_averaging, averaging
\* progress, averaging poll true, capture, data_ready, end_averaging,
\* run_progress, step_finished; every step_progress of a step precedes its
\* data_ready; capture directly follows the poll's completion; a step's
\* completion follows its data_ready.
C31_StepOrder ==
    [][ \A a \in (Len(log) + 1)..Len(log') : InStepOrder(log', a) ]_allvars

\* a whole step on a blocking axis with settle, dwell and averaging waits
C31_Witness ==
    /\ sweep.blocking
    /\ \E a \in DOMAIN log : log[a] = Ev("step_progress", 1, "stabilizing...")
    /\ \E a \in DOMAIN log : log[a] = Ev("step_progress", 1, "waiting...")
    /\ \E a \in DOMAIN log : log[a] = Ev("step_progress", 1, "averaging...")
    /\ \E a \in DOMAIN log : log[a] = Ev("step_finished", 1, "")

\* ---------------------------------------------------------------------- C32
\* The pause loop of the per-point check.
PauseLoop == {"_wait_if_paused", "pause_msleep"}

Acked(w) == w.ev = "reply" /\ Accepts("TeraflashTHzSystem", w.text)

\* C33: begin_averaging sends AUTO off, WAIT off, AUTO on in this order and
\* end_averaging AUTO off, WAIT off; a command is sent only after every
\* command before it was acknowledged, and the call raises exactly when a
\* command was not acknowledged, which is then the last one sent; a
\* begin_averaging that returns leaves AUTO on and WAIT off, an end_averaging
\* that returns leaves both off; is_averaging_done returns True exactly for
\* the reply "ON".
C33_AveragingCommandOrder ==
    /\ hcall.op \in {"begin_averaging", "end_averaging"} =>
        LET cmds == AveragingCommands(hcall.op)
            a == hcall.avg
        IN  /\ Len(a.cmds) <= Len(cmds)
            /\ a.cmds = SubSeq(cmds, 1, Len(a.cmds))
            /\ Len(a.ws) = Len(a.cmds)
            /\ \A k \in 1..(Len(a.cmds) - 1) : Acked(a.ws[k])
            /\ hcall.exc = "" <=>
                    (a.cmds = cmds /\ \A k \in DOMAIN a.ws : Acked(a.ws[k]))
            /\ hcall.exc # "" /\ a.cmds # <<>> => ~Acked(a.ws[Len(a.ws)])
            /\ a.cmds = <<>> <=> hcall.socks = {}
            /\ hcall.exc = "" =>
                    a.flags = [AUTO |-> IF hcall.op = "begin_averaging" THEN "ON" ELSE "OFF",
                               WAIT |-> "OFF"]
    /\ hcall.op = "is_averaging_done" /\ hcall.exc = "" =>
            (hcall.ret.value = "True" <=> hcall.avg.ws[1] = Answer(<<"ON">>))

\* begin_averaging whose WAIT off was refused: AUTO on was not sent and the
\* error propagated
C33_Witness ==
    /\ hcall.op = "begin_averaging"
    /\ hcall.avg.cmds = << <<"AUTO", "OFF">>, <<"WAIT", "OFF">> >>
    /\ hcall.avg.ws[2] = Answer(<<"E", "-1">>)
    /\ hcall.exc = "RuntimeError:set_failed"
    /\ hcall.avg.before.AUTO = "ON"
    /\ hcall.avg.flags = [AUTO |-> "OFF", WAIT |-> "ON"]

\* ---------------------------------------------------------------------- C35
\* C35: a Mercury status snapshot has device entries, and makes reads, only
\* for devices of a kind the class declares polled (enabled_kinds true) whose
\* nickname is not on that kind's ignore list, so for MercuryIPSController none
\* of kind HTR, PRES or AUX; every exposed device has its entry and each of
\* its fields is read once.
C35_SnapshotOnlyPolledKinds ==
    hcall.op = "mercury_status" =>
        LET sn == hcall.snap
            exposed == { d \in sn.devices :
                           /\ d.kind \in MercuryKinds
                           /\ enabled_kinds(sn.cls)[d.kind]
                           /\ d.name \notin ignored_devices(sn.cls)[d.kind] }
        IN  /\ sn.entries = exposed
            /\ \A j \in DOMAIN sn.reads :
                    \E d \in exposed : sn.reads[j][1] = d.name
            /\ \A j, k \in DOMAIN sn.reads : sn.reads[j] = sn.reads[k] => j = k
            /\ sn.cls = "MercuryIPSController" =>
                    \A d \in sn.entries : d.kind \notin {"HTR", "PRES", "AUX"}

\* ---------------------------------------------------------------------- C34
\* C34: the line a Mercury command returns (the catalogue read of connect
\* included) is the instrument's reply to that very command on that very
\* connection.
C34_ReplyPairedWithCommand ==
    (mcall.op \in {"_send_command", "connect"} /\ mcall.exc = "" /\ mcall.cmd # 0) =>
        mcall.returned = [cmd |-> mcall.cmd, conn |-> mcall.conn]

\* ---------------------------------------------------------------------- C37
\* The execution thread of run r is alive from run_experiment until its quit,
\* which the slot of the run's finished signal asks for.
ThreadAlive(r) ==
    \/ workers[r].at # "finished"
    \/ \E k \in DOMAIN events : events[k] = [sig |-> "finished", run |-> r]

\* A queued slot ran in this step, the one of run r.
SlotRan(r) == events # <<>> /\ Head(events).run = r /\ events' # events /\ workers' = workers

\* C37: run_experiment starts a worker only when the thread of no earlier run
\* is alive; and a slot queued by run r changes no writer but that of run r,
\* and leaves _worker, _writer and the status alone when the controller's
\* current run is a later one.
C37_RunsDoNotInterfere ==
    [][ /\ Len(workers') > Len(workers) =>
            \A r \in DOMAIN workers : ~ThreadAlive(r)
        /\ \A r \in DOMAIN workers :
            SlotRan(r) =>
                /\ \A w \in DOMAIN writers : writers'[w] # writers[w] => w = r
                /\ _worker > r =>
                        UNCHANGED <<_worker, _writer, experiment_status>>
      ]_allvars

\* ---------------------------------------------------------------------- C38
\* C38: if from some time on the pause flag is clear or abort is set, the
\* worker reaches the end of run(), every queued slot including
\* _cleanup_experiment has run, and the experiment status is IDLE and stays
\* so, the state in which run_experiment is accepted.
C38_RunEventuallyFreesController ==
    (<>[](~_paused \/ _abort)) =>
        <>[](/\ pc = "done"
             /\ queue = <<>>
             /\ ~writer.attached
             /\ experiment_status = "IDLE"
             /\ ~_experiment_running)

\* a run paused at a per-point check and then aborted has ended and the
\* controller is free again
C38_Witness ==
    /\ pc = "done"
    /\ queue = <<>>
    /\ ~writer.attached
    /\ experiment_status = "IDLE"
    /\ hist.abort_in = "pause"
    /\ _paused

====
